---- MODULE Spec2Model ----
(***************************************************************************)
(* The ssh-bridge daemon: the connection pool (src/src/daemon/pool.js),    *)
(* the per-client handler (src/src/daemon/handler.js), the request         *)
(* validators (src/src/daemon/decode.js) and the shutdown sequence of the  *)
(* daemon's main().                                                        *)
(*                                                                         *)
(* Node runs every callback to completion, so each action below is one     *)
(* callback: a frame handled by socket.on('data'), the socket's close      *)
(* event, an event of the ssh2 connection, a retention timer, a channel    *)
(* event, or the shutdown sequence.  Events emitted on an EventEmitter run *)
(* their listeners synchronously and are part of the emitting action.      *)
(*                                                                         *)
(* The ssh2 library is the environment: a connection goes through          *)
(* "handshake" (host key not yet verified), "auth", "ready"; an 'error'    *)
(* event or a call of end() takes it to "ended" (torn down, its 'close'    *)
(* event still to come) and the 'close' event takes it to "closed".        *)
(*                                                                         *)
(* The caller-side client (src/src/lib/create-client.js) is the variable   *)
(* client; its steps are the methods that the caller invokes and the       *)
(* callbacks of its socket, with the daemon as its environment.            *)
(*                                                                         *)
(* The frame parser (src/src/lib/frame-parser.js) is the variable          *)
(* frameParser, fed from the byte stream of the variable stream.  The      *)
(* start-up of the daemon (lock file, pid file, socket file) and of the    *)
(* callers that spawn it are the variables daemon, configDir and starter.  *)
(* The window size of a pseudo-terminal is the variable pty, the stdin of   *)
(* the commands of one session the variable input, and the retention       *)
(* timers that outlive their connection the variable timers.               *)
(***************************************************************************)
EXTENDS Integers, Sequences, FiniteSets, TLC

\* ------------------------------------------------------------------ bounds
NumHandlers == 2
MaxSessions == 2
MaxChallenges == 1
MaxChannels == 2
MaxQueued == 1
MaxAttempts == 2
MaxRaised == 2

\* --------------------------------------------------------------- constants
SHARED_CONNECTIONS_TTL == 5000
CACHED_CONNECTIONS_TTL == 43200000

Handlers == 1..NumHandlers
Sessions == 1..MaxSessions

NULL == 0
POOL == 0
NoKey == <<>>

\* ---------------------------------------------------------- handler states
INITIAL == "INITIAL"
CONNECTING == "CONNECTING"
READY == "READY"
EXECUTING == "EXECUTING"
ERRORED == "ERRORED"

VARIABLES handler, session, cachedConnections, cachedCredentials, aborted, note,
          timers, client, frameParser, stream, daemon, configDir, starter, pty, input

daemonVars ==
    <<handler, session, cachedConnections, cachedCredentials, aborted, note, timers>>

\* The library pieces that are verified on their own.
libVars == <<frameParser, stream, daemon, configDir, starter, pty, input>>

vars == <<handler, session, cachedConnections, cachedCredentials, aborted, note, timers,
          client, frameParser, stream, daemon, configDir, starter, pty, input>>

\* ------------------------------------------------------------------ inputs
Hostnames == {"a", "A"}
DefaultPort == 22

toLowerCase(str) == IF str = "A" THEN "a" ELSE str

isNonEmptyString(value) == value # ""

isValidPort(value) == value > 0 /\ value <= 65535

\* The fingerprint of a host key as ssh2 reports it (hex) and as the caller
\* and the daemon write it (base64).
HexFingerprints == {"aa"}

hexToBase64(hex) == IF hex = "aa" THEN "qg==" ELSE "uw=="

\* The banner as the server sends it.
BannerMessages == {"hi", "hi\n"}

endsWithNewline(message) == message = "hi\n"

\* privateKey is "" (absent), "good" (parseKey accepts it) or "bad"
\* (parseKey returns an Error); password is "" (absent) or a password.
PasswordAuth == [id |-> 0, privateKey |-> "", password |-> "pw", tryKeyboard |-> FALSE]

KeyboardAuth == [id |-> 0, privateKey |-> "", password |-> "pw", tryKeyboard |-> TRUE]

BadKeyAuth == [id |-> 0, privateKey |-> "bad", password |-> "", tryKeyboard |-> FALSE]

BadKeyPasswordAuth == [id |-> 0, privateKey |-> "bad", password |-> "pw", tryKeyboard |-> FALSE]

NoAuth == [id |-> 0, privateKey |-> "", password |-> "", tryKeyboard |-> FALSE]

Request(username, hostname, fingerprint, reusable, auth) ==
    [username |-> username, hostname |-> hostname, port |-> DefaultPort,
     fingerprint |-> fingerprint, reusable |-> reusable, auth |-> auth]

\* The requests of the clients.  The last one of each set fails validation
\* (empty username).
RawConnect ==
    { Request("u", "a", "",     TRUE,  PasswordAuth),
      Request("u", "A", "qg==", FALSE, PasswordAuth),
      Request("u", "A", "qg==", TRUE,  NoAuth),
      Request("u", "a", "qg==", TRUE,  KeyboardAuth),
      Request("u", "a", "qg==", FALSE, BadKeyAuth),
      Request("u", "a", "",     TRUE,  BadKeyPasswordAuth),
      Request("u", "a", "uw==", FALSE, PasswordAuth),
      Request("",  "a", "",     FALSE, NoAuth) }

RawReuse ==
    { [username |-> "u", hostname |-> "a", port |-> DefaultPort, shareKey |-> ""],
      [username |-> "u", hostname |-> "A", port |-> DefaultPort, shareKey |-> "5f"],
      [username |-> "",  hostname |-> "a", port |-> DefaultPort, shareKey |-> ""] }

ShareKeys == {"5f", "c0"}

\* ---------------------------------------------------------------- decode.js
Malformed == [valid |-> FALSE]

reuseParams(raw) ==
    IF isNonEmptyString(raw.hostname) /\ isNonEmptyString(raw.username)
       /\ isValidPort(raw.port)
    THEN [valid |-> TRUE, username |-> raw.username,
          hostname |-> toLowerCase(raw.hostname), port |-> raw.port,
          shareKey |-> ""]
    ELSE Malformed

connectParams(raw) ==
    IF isNonEmptyString(raw.hostname) /\ isNonEmptyString(raw.username)
       /\ isValidPort(raw.port)
    THEN [valid |-> TRUE, username |-> raw.username,
          hostname |-> toLowerCase(raw.hostname), port |-> raw.port,
          fingerprint |-> raw.fingerprint, reusable |-> raw.reusable,
          auth |-> raw.auth]
    ELSE Malformed

\* ------------------------------------------------------------------ pool.js
getCacheKey(username, hostname, port) == <<username, hostname, port>>

getExtendedCacheKey(cacheKey, shareKey) == Append(cacheKey, shareKey)

toErrorMessage(level) ==
    CASE level = "handshake" -> "SSH handshake failed"
      [] level = "client-socket" -> "connection error"
      [] level = "client-timeout" -> "connection timed out"
      [] level = "client-authentication" -> "authentication denied"
      [] level = "client-dns" -> "DNS lookup failed"
      [] OTHER -> "unexpected error"

NoMismatch == <<>>

errorReason(level, fingerprintMismatch) ==
    IF level = "handshake" /\ fingerprintMismatch # NoMismatch
    THEN [reason |-> "host fingerprint has changed", detail |-> fingerprintMismatch]
    ELSE [reason |-> toErrorMessage(level), detail |-> NoMismatch]

plainReason(text) == [reason |-> text, detail |-> NoMismatch]

\* Map operations on cachedConnections and cachedCredentials.
MapHas(map, key) == key \in DOMAIN map

MapGet(map, key) == IF key \in DOMAIN map THEN map[key] ELSE NULL

MapDelete(map, key) == [k \in DOMAIN map \ {key} |-> map[k]]

MapSet(map, key, value) == [k \in DOMAIN map \cup {key} |-> IF k = key THEN value ELSE map[k]]

EmptyMap == [k \in {} |-> NULL]

\* ----------------------------------------------------------- session state
NoInfo == [fingerprint |-> "", banner |-> ""]

NoTimer == [key |-> NoKey, ttl |-> 0]

FreeSession ==
    [ conn |-> "closed", cacheKey |-> NoKey, reusable |-> FALSE, auth |-> NoAuth,
      reusingCredentials |-> FALSE, hadChallenges |-> FALSE,
      challengeCallbacks |-> 0, fingerprint |-> "", fingerprintMismatch |-> NoMismatch,
      banner |-> "", connectInfo |-> NoInfo, done |-> FALSE,
      emitter |-> POOL, cleanupKey |-> NoKey, ttlTimer |-> NoTimer, shareKey |-> "",
      pendingExec |-> 0, liveChannel |-> 0, channelError |-> FALSE,
      queuedInputData |-> 0, queuedInputEnd |-> FALSE,
      announced |-> NoInfo, keptBy |-> "", sharedAs |-> "" ]

\* ---------------------------------------------------------- handler.js
\* handler[h].sent is the frame that the last step wrote to h's socket.
NoFrame == [type |-> "NONE", data |-> plainReason("")]

Quiet(handlers) == [h \in DOMAIN handlers |-> [handlers[h] EXCEPT !.sent = NoFrame]]

H == Quiet(handler)

ClosedHandler == [state |-> ERRORED, ssh |-> NULL, socket |-> "closed", sent |-> NoFrame]

NewHandler == [state |-> INITIAL, ssh |-> NULL, socket |-> "open", sent |-> NoFrame]

writable(hr) == hr.socket = "open"

destroySoon(hr) == [hr EXCEPT !.socket = IF hr.socket = "open" THEN "ending" ELSE @]

sendJSON(hr, type, data) ==
    IF writable(hr) THEN [hr EXCEPT !.sent = [type |-> type, data |-> data]] ELSE hr

\* Of an EXCEPTION frame the model keeps the type, not the reason text.
exception(hr, reason) ==
    IF hr.state = ERRORED THEN hr
    ELSE [destroySoon(sendJSON(hr, "EXCEPTION", plainReason(""))) EXCEPT !.state = ERRORED]

onAbortInAnyState(hr) == [destroySoon(hr) EXCEPT !.state = ERRORED]

onAbort(hr) ==
    IF hr.state # EXECUTING THEN [destroySoon(hr) EXCEPT !.state = ERRORED] ELSE hr

onConnectedAnywhere(hr, info) ==
    sendJSON([hr EXCEPT !.state = READY], "CONNECTED", info)

onConnected(hr, info) ==
    IF hr.state = CONNECTING
    THEN sendJSON([hr EXCEPT !.state = READY], "CONNECTED", info)
    ELSE exception(hr, "internal error involving unexpected connection")

onUnconnectedStays(hr, reason) ==
    LET h1 == [hr EXCEPT !.ssh = NULL] IN
    IF h1.state = CONNECTING
    THEN sendJSON(h1, "UNCONNECTED", reason)
    ELSE exception(h1, "internal error involving unexpected unconnection")

onUnconnected(hr, reason) ==
    LET h1 == [hr EXCEPT !.ssh = NULL] IN
    IF h1.state = CONNECTING
    THEN sendJSON([h1 EXCEPT !.state = INITIAL], "UNCONNECTED", reason)
    ELSE exception(h1, "internal error involving unexpected unconnection")

onDisconnectedAnywhere(hr, reason) ==
    LET h1 == [hr EXCEPT !.ssh = NULL] IN
    destroySoon(sendJSON([h1 EXCEPT !.state = ERRORED], "DISCONNECTED", reason))

onDisconnected(hr, reason) ==
    LET h1 == [hr EXCEPT !.ssh = NULL] IN
    IF h1.state \in {READY, EXECUTING}
    THEN destroySoon(sendJSON([h1 EXCEPT !.state = ERRORED], "DISCONNECTED", reason))
    ELSE exception(h1, "internal error involving unexpected disconnection")

onChallenge(hr) ==
    IF hr.state = CONNECTING
    THEN sendJSON(hr, "CHALLENGE", plainReason("challenge"))
    ELSE exception(hr, "internal error involving unexpected challenge")

sendRaw(hr, type, data) ==
    IF writable(hr) THEN [hr EXCEPT !.sent = [type |-> type, data |-> data]] ELSE hr

\* emitter.on('stdout') and emitter.on('stderr'); type is STDOUT or STDERR.
onOutput(hr, type) ==
    IF hr.state = EXECUTING
    THEN sendRaw(hr, type, plainReason("data"))
    ELSE exception(hr, "internal error involving unexpected stdout")

afterResultStays(hr) == hr

\* signal.aborted && onAbort()
afterResult(hr) == IF aborted THEN onAbort(hr) ELSE hr

onResultStays(hr, result) ==
    IF hr.state = EXECUTING
    THEN sendJSON(hr, "RESULT", result)
    ELSE exception(hr, "internal error involving unexpected result")

onResult(hr, result) ==
    IF hr.state = EXECUTING
    THEN afterResult(sendJSON([hr EXCEPT !.state = READY], "RESULT", result))
    ELSE exception(hr, "internal error involving unexpected result")

\* ------------------------------------------------- pool.js: the session
\* A connection that is being torn down: of the closure's variables only
\* those that its 'close' event and its retention timer read are kept.
Ended(sr) ==
    [FreeSession EXCEPT !.conn = "ended", !.done = sr.done, !.emitter = sr.emitter,
                        !.connectInfo = sr.connectInfo, !.announced = sr.announced,
                        !.cleanupKey = sr.cleanupKey, !.ttlTimer = sr.ttlTimer]

\* connection.end(): the connection is torn down; its 'close' event follows.
end(sr) ==
    IF sr.conn \in {"handshake", "rejected", "auth", "ready"} THEN Ended(sr) ELSE sr

sshLevelErrorKeepsReusable(sr) == sr

\* reusable = false; // Don't reuse connections that have SSH-level errors
sshLevelError(sr) == [sr EXCEPT !.reusable = FALSE]

\* writeStdin(data): queuedInputData counts the chunks that wait for the
\* channel to open.
writeStdin(sr) ==
    IF sr.liveChannel > 0 THEN sr
    ELSE IF ~sr.queuedInputEnd THEN [sr EXCEPT !.queuedInputData = @ + 1]
    ELSE sr

endStdin(sr) ==
    IF sr.liveChannel > 0 THEN sr ELSE [sr EXCEPT !.queuedInputEnd = TRUE]

cleanupKeepsEntry(map, key, s) == map

\* cleanup of relinquish: drop the idle entry if it is still this session.
cleanup(map, key, s) ==
    IF MapHas(map, key) /\ map[key] = s THEN MapDelete(map, key) ELSE map

reuseKeepsEntry(map, key) == map

\* cachedConnections.delete(cacheKey) of pool.reuse.
reuseDelete(map, key) == MapDelete(map, key)

clearTimeoutSkipped(sr) == sr

\* clearTimeout(ttlTimer) of _reuse and of cleanup.
clearTimeout(sr) == [sr EXCEPT !.ttlTimer = NoTimer]

_reuseReadsBanner(sr) == [fingerprint |-> sr.connectInfo.fingerprint, banner |-> sr.banner]

\* _reuse: what the session reports to the handler that takes it over.
_reuse(sr) == sr.connectInfo

\* The guard of relinquish that closes the connection instead of caching it.
relinquishCloses(sr, reuse) ==
    reuse # "SHARE" /\ (reuse = "false" \/ ~sr.reusable)

relinquishShareKey(sr, reuse, random) ==
    IF reuse = "SHARE" /\ sr.shareKey = "" THEN random ELSE sr.shareKey

relinquishKey(sr, reuse, random) ==
    IF reuse = "SHARE"
    THEN getExtendedCacheKey(sr.cacheKey, relinquishShareKey(sr, reuse, random))
    ELSE sr.cacheKey

relinquishTTL(reuse) ==
    IF reuse = "SHARE" THEN SHARED_CONNECTIONS_TTL ELSE CACHED_CONNECTIONS_TTL

closePreviousSkipped(sess, old) == sess

\* cachedConnections.get(key)?.relinquish(false): the session held before.
closePrevious(sess, old) ==
    IF old # NULL THEN [sess EXCEPT ![old] = end(@)] ELSE sess

\* relinquish(reuse): the sessions after the call ...
relinquishSessions(sess, map, s, reuse, random) ==
    IF relinquishCloses(sess[s], reuse)
    THEN [sess EXCEPT ![s] = end(@)]
    ELSE LET key == relinquishKey(sess[s], reuse, random)
             s1 == closePrevious(sess, MapGet(map, key))
         IN [s1 EXCEPT ![s].shareKey = relinquishShareKey(sess[s], reuse, random),
                       ![s].emitter = POOL,
                       ![s].cleanupKey = key,
                       ![s].ttlTimer = [key |-> key, ttl |-> relinquishTTL(reuse)]]

\* ... and the idle map after the call.
relinquishMap(sess, map, s, reuse, random) ==
    IF relinquishCloses(sess[s], reuse)
    THEN map
    ELSE MapSet(map, relinquishKey(sess[s], reuse, random), s)

\* History: which caller of relinquish made the session idle.
keptBy(sess, s, who) ==
    IF sess[s].conn = "ready" /\ sess[s].emitter = POOL
    THEN [sess EXCEPT ![s].keptBy = who] ELSE sess

\* History: the share key that the first SHARED of the session reported.
sharedAs(sess, s, shareKey) ==
    IF sess[s].conn = "ready" /\ sess[s].sharedAs = ""
    THEN [sess EXCEPT ![s].sharedAs = shareKey] ELSE sess

\* What a call of relinquish did, for the history variable.
relinquishNote(sess, map, s, reuse, random) ==
    IF relinquishCloses(sess[s], reuse) THEN "ended"
    ELSE IF MapGet(map, relinquishKey(sess[s], reuse, random)) \notin {NULL, s}
    THEN "kept, replacing" ELSE "kept"

shouldCacheAfterChallenge(sr) == ~sr.reusingCredentials

\* The ready handler caches the credentials of this attempt.
shouldCache(sr) == ~sr.reusingCredentials /\ ~sr.hadChallenges

sanitize(auth, id) == [auth EXCEPT !.tryKeyboard = FALSE, !.id = id]

shouldEvictNever(sr, level) == FALSE

\* The error handler evicts the cached credentials of this attempt.
shouldEvict(sr, level) ==
    sr.reusingCredentials /\ sr.connectInfo = NoInfo /\ level = "client-authentication"

sameRecordAlways(sr) == TRUE

\* cachedCredentials.get(cacheKey) === auth
sameRecord(sr) ==
    MapHas(cachedCredentials, sr.cacheKey) /\ cachedCredentials[sr.cacheKey] = sr.auth

\* Object identity of credential records: a fresh record gets the smallest
\* identity that no live reference carries.
UsedIds ==
    {cachedCredentials[k].id : k \in DOMAIN cachedCredentials}
        \cup {session[s].auth.id : s \in Sessions}

FreshId == CHOOSE i \in 1..(Cardinality(UsedIds) + 1) :
               i \notin UsedIds /\ \A j \in 1..(i - 1) : j \in UsedIds

FreeSlots == {s \in Sessions : session[s].conn = "closed"}

NewSlot == CHOOSE s \in FreeSlots : \A t \in FreeSlots : s <= t

\* ------------------------------------------------------------ the steps
\* A connection that is being torn down and whose remaining events change
\* nothing: its 'close' event returns at once (done), or runs the cleanup of a
\* session that is no longer the idle entry, or reaches the listeners of a
\* handler whose socket has closed.  Its slot is free again at once.
Inert(sr, handlers) ==
    /\ sr.conn = "ended"
    /\ \/ sr.done
       \/ sr.emitter = POOL
       \/ handlers[sr.emitter].socket = "closed"

\* A ready connection whose handler is Errored: the handler reads nothing of
\* it any more and ends it when its socket closes.
Doomed(sr, handlers) ==
    /\ sr.conn = "ready"
    /\ sr.emitter # POOL
    /\ handlers[sr.emitter].state = ERRORED

\* A connection that is still being established while its handler is
\* Errored: the handler's listeners ignore its events, and its socket's close
\* handler ends it; what it still does is write or evict credentials.
Orphaned(sr, handlers) ==
    /\ sr.conn \in {"handshake", "rejected", "auth"}
    /\ sr.emitter # POOL
    /\ handlers[sr.emitter].state = ERRORED

Tidy(sess, handlers) ==
    [s \in DOMAIN sess |->
        IF Inert(sess[s], handlers) THEN FreeSession
        ELSE IF Doomed(sess[s], handlers)
        THEN [FreeSession EXCEPT !.conn = "ready", !.emitter = sess[s].emitter]
        ELSE IF Orphaned(sess[s], handlers)
        THEN [sess[s] EXCEPT !.banner = "", !.reusable = FALSE,
                             !.challengeCallbacks = 0,
                             !.fingerprintMismatch = NoMismatch,
                             !.fingerprint = IF sess[s].conn = "handshake" THEN @ ELSE ""]
        ELSE sess[s]]

\* note is a history variable: what the last step did, for the steps that
\* the properties below speak about.
NoNote == <<>>

\* The note of a frame that the handler's state does not allow.
Unexpected == <<"frame", "unexpected">>

Rejected == <<"frame", "malformed">>

\* A retention timer is not cancelled when relinquish(false) or pool.clear()
\* ends its connection: it stays pending after the connection has gone.  Such
\* a timer changes nothing when it fires, so timers.keys holds the keys of
\* these timers only where that is what is being verified (timers.kept).
NoTimers == [kept |-> FALSE, keys |-> {}]

KeptTimers == [kept |-> TRUE, keys |-> {}]

\* The timers that the step leaves pending on connections that are gone.
abandoned(sess, handlers) ==
    {sess[s].ttlTimer.key :
        s \in {x \in DOMAIN sess : /\ sess[x].ttlTimer # NoTimer
                                   /\ Tidy(sess, handlers)[x].ttlTimer = NoTimer}}

\* The state after a step.
Commit(handlers, sess, connections, credentials, abort, did) ==
    /\ note' = did
    /\ timers' = IF timers.kept
                 THEN [timers EXCEPT !.keys = @ \cup abandoned(sess, handlers)]
                 ELSE timers
    /\ handler' = handlers
    /\ session' = Tidy(sess, handlers)
    /\ cachedConnections' = connections
    /\ cachedCredentials' = credentials
    /\ aborted' = abort
    /\ client' = client
    /\ UNCHANGED libVars

\* emitter.emit(event) of a session: the handler whose listeners run, after
\* they have run.
Emit(sr, hr) == IF sr.emitter # POOL THEN [H EXCEPT ![sr.emitter] = hr] ELSE H

Listener(sr) == IF sr.emitter # POOL THEN H[sr.emitter] ELSE ClosedHandler

\* emitter.emit('disconnected' | 'unconnected', reason) by the connection's
\* error and close handlers: the handler's listener ...
EmitTermination(sr, reason) ==
    Emit(sr, IF sr.connectInfo # NoInfo THEN onDisconnected(Listener(sr), reason)
                                        ELSE onUnconnected(Listener(sr), reason))

\* ... or the cleanup that relinquish registered once on the session's own
\* emitter.
TerminationCleanup(s, sr) ==
    IF sr.emitter = POOL /\ sr.connectInfo # NoInfo /\ sr.cleanupKey # NoKey
    THEN cleanup(cachedConnections, sr.cleanupKey, s)
    ELSE cachedConnections

terminationNote(s, sr) ==
    IF TerminationCleanup(s, sr) # cachedConnections
    THEN <<"disconnected", "idle entry removed">> ELSE NoNote

ByteLengths == {0, 1}

\* A frame that arrives in a state in which its payload is not read: one
\* payload stands for all.
Unread(payloads) == CHOOSE payload \in payloads : TRUE

\* ------------------------------------------- create-client.js: the client
\* An error object: its constructor, its message (for the client's terminal
\* errors error.type, which fixes the message) and the type of its cause.
NoError == [name |-> "", text |-> "", cause |-> "", reason |-> ""]

\* error = new Error(message); error.type = type; error.reason = String(reason)
terminalErrorWith(type, reason) ==
    [name |-> "Error", text |-> type, cause |-> "", reason |-> reason]

terminalError(type) == terminalErrorWith(type, "")

StateError ==
    [name |-> "TypeError", text |-> "Method not available in the current state",
     cause |-> "", reason |-> ""]

ClosedError(cause) ==
    [name |-> "TypeError", text |-> "Client is closed", cause |-> cause.text,
     reason |-> ""]

ArgumentError ==
    [name |-> "TypeError", text |-> "Expected", cause |-> "", reason |-> ""]

\* resolver: the pending operation, if any.
NoResolver == [kind |-> "none", challengeHandler |-> FALSE]

\* client.call is the method that the last step invoked, with what became of
\* it at once: "pending", "resolved", "rejected" or "threw", the error, and
\* the error that exec's stdout and stderr were destroyed with.
NoCall == [method |-> "none", outcome |-> "", error |-> NoError, streams |-> NoError]

Called(method, outcome, error, streams) ==
    [method |-> method, outcome |-> outcome, error |-> error, streams |-> streams]

\* client.settled is what the last step did to the pending operation, and
\* the error with which the stdout and stderr of an exec were destroyed.
NoSettle == [kind |-> "none", how |-> "", error |-> NoError, streams |-> NoError]

\* client.sent is the frame that the last step wrote to the socket;
\* client.challenges are the attempts whose challengeHandler has not answered;
\* client.closing is the promise of close(); client.raised counts how often a
\* method has thrown the stashed error; client.owed is a history: a terminal
\* error other than that of close() struck while no operation was pending,
\* and connect, reuse or exec has not been invoked since.
NewClient ==
    [ state |-> INITIAL, socket |-> "open", socketHasClosed |-> FALSE,
      hasNewException |-> FALSE, connectionAttempts |-> 0, resolver |-> NoResolver,
      error |-> NoError, challenges |-> {}, sent |-> "NONE", call |-> NoCall,
      settled |-> NoSettle, closing |-> "none", raised |-> 0, owed |-> FALSE ]

Calm(c) == [c EXCEPT !.sent = "NONE", !.call = NoCall, !.settled = NoSettle]

Cl == Calm(client)

rejectOnlyConnect(c, error) ==
    IF c.resolver.kind \in {"connect", "reuse"}
    THEN [c EXCEPT !.settled = [kind |-> c.resolver.kind, how |-> "rejected",
                                error |-> error, streams |-> NoError],
                   !.resolver = NoResolver]
    ELSE [c EXCEPT !.hasNewException = TRUE]

\* if (resolver) { resolver.reject(error); resolver = undefined; } else
\* { hasNewException = true; }; the rejection of exec's result promise
\* destroys stdout and stderr with the same error.
reject(c, error) ==
    IF c.resolver # NoResolver
    THEN [c EXCEPT !.settled = [kind |-> c.resolver.kind, how |-> "rejected",
                                error |-> error,
                                streams |-> IF c.resolver.kind = "exec"
                                            THEN error ELSE NoError],
                   !.resolver = NoResolver]
    ELSE [c EXCEPT !.hasNewException = TRUE]

\* function exception(message, type)
firstErrorOrLater(c) == TRUE

\* if (state !== ERRORED): only the first terminal error is taken.
firstError(c) == c.state # ERRORED

clientExceptionWith(c, type, reason) ==
    IF firstError(c)
    THEN [reject(c, terminalErrorWith(type, reason))
            EXCEPT !.state = ERRORED,
                   !.error = terminalErrorWith(type, reason),
                   !.owed = c.resolver = NoResolver,
                   !.socket = IF @ = "open" THEN "ending" ELSE @]
    ELSE c

clientException(c, type) == clientExceptionWith(c, type, "")

\* decodeJSON(frame.data)?.reason || 'unknown error'
reasonOr(reason) == IF reason = "" THEN "unknown error" ELSE reason

protocolException(c, type) ==
    clientExceptionWith(c, "PROTOCOL_ERROR", "unexpected " \o type \o " frame")

\* sendRaw and sendJSON of the client
clientSend(c, type) ==
    IF c.state = ERRORED \/ c.socket # "open" THEN c ELSE [c EXCEPT !.sent = type]

expectStateThrowsWhenClosed(c, expectedState) ==
    IF c.state = ERRORED
    THEN IF c.hasNewException THEN c.error ELSE ClosedError(c.error)
    ELSE NoError

\* expectState: the error it throws, NoError when it returns.
expectStateThrows(c, expectedState) ==
    IF c.state = ERRORED
    THEN IF c.hasNewException THEN c.error ELSE ClosedError(c.error)
    ELSE IF c.state # expectedState THEN StateError
    ELSE NoError

expectStateKeepsStash(c) ==
    IF c.state = ERRORED /\ c.hasNewException
    THEN [c EXCEPT !.raised = IF @ < MaxRaised THEN @ + 1 ELSE @]
    ELSE c

\* expectState: what it does to the stashed error that it throws.
expectStateConsumes(c) ==
    IF c.state = ERRORED /\ c.hasNewException
    THEN [c EXCEPT !.hasNewException = FALSE,
                   !.raised = IF @ < MaxRaised THEN @ + 1 ELSE @]
    ELSE c

\* attachPromise after the frame is sent, the attempt counted and the state
\* changed.
begin(c, frame, state, kind, challengeHandler) ==
    [clientSend(c, frame) EXCEPT
        !.state = state,
        !.resolver = [kind |-> kind, challengeHandler |-> challengeHandler],
        !.call = Called(kind, "pending", NoError, NoError)]

ClientStep(c) == client' = c /\ UNCHANGED <<daemonVars, libVars>>

\* reuse(params)
CallReuse ==
    LET thrown == expectStateThrows(Cl, INITIAL) IN
    /\ thrown = NoError => Cl.connectionAttempts < MaxAttempts
    /\ ClientStep(
         IF thrown # NoError
         THEN [expectStateConsumes(Cl) EXCEPT
                  !.call = Called("reuse", "rejected", thrown, NoError),
                  !.owed = FALSE]
         ELSE [begin(Cl, "REUSE", CONNECTING, "reuse", FALSE) EXCEPT
                  !.connectionAttempts = @ + 1])

ChallengeHandlers == {"function", "null", "other"}

\* connect(params, challengeHandler)
CallConnect(challengeHandler) ==
    LET thrown == expectStateThrows(Cl, INITIAL) IN
    /\ (challengeHandler # "other" /\ thrown = NoError)
           => Cl.connectionAttempts < MaxAttempts
    /\ ClientStep(
         IF challengeHandler = "other"
         THEN [Cl EXCEPT !.call = Called("connect", "rejected", ArgumentError, NoError)]
         ELSE IF thrown # NoError
         THEN [expectStateConsumes(Cl) EXCEPT
                  !.call = Called("connect", "rejected", thrown, NoError),
                  !.owed = FALSE]
         ELSE [begin(Cl, "CONNECT", CONNECTING, "connect", challengeHandler = "function")
                  EXCEPT !.connectionAttempts = @ + 1])

\* exec(command): the executor of the result promise throws what expectState
\* throws, which rejects result, and the rejection destroys stdout and stderr.
CallExec(isString) ==
    LET thrown == expectStateThrows(Cl, READY) IN
    /\ client' =
         IF ~isString
         THEN [Cl EXCEPT !.call = Called("exec", "threw", ArgumentError, NoError)]
         ELSE IF thrown # NoError
         THEN [expectStateConsumes(Cl) EXCEPT
                  !.call = Called("exec", "rejected", thrown, thrown),
                  !.owed = FALSE]
         ELSE begin(Cl, "COMMAND", EXECUTING, "exec", FALSE)
    /\ UNCHANGED <<daemonVars, libVars>>

closeKeepsStash(c) == c

\* close(): hasNewException = false
closeClearsStash(c) == [c EXCEPT !.hasNewException = FALSE]

\* close()
CallClose ==
    LET c == closeClearsStash(clientException(Cl, "CLOSED")) IN
    /\ client' = [c EXCEPT
          !.owed = Cl.owed,
          !.closing = IF c.socketHasClosed THEN "resolved" ELSE "waiting",
          !.call = Called("close", IF c.socketHasClosed THEN "resolved" ELSE "pending",
                          NoError, NoError)]
    /\ UNCHANGED <<daemonVars, libVars>>

settle(c, state) ==
    [c EXCEPT !.state = state,
              !.settled = [kind |-> c.resolver.kind, how |-> "resolved",
                           error |-> NoError, streams |-> NoError],
              !.resolver = NoResolver]

DaemonFrames ==
    {"CHALLENGE", "CONNECTED", "UNCONNECTED", "DISCONNECTED", "RESULT", "STDOUT",
     "STDERR", "EXCEPTION", "SHARED"}

FrameReasons == {"", "denied"}

\* socket.on('data'): one frame of the daemon; hasError is whether a RESULT
\* carries an error field, reason the reason (or error) that the frame gives.
\* At most one answer is outstanding per attempt.
ClientFrame(type, hasError, reason) ==
    /\ Cl.socket # "closed"
    /\ type # "RESULT" => hasError = FALSE
    /\ (type \notin {"DISCONNECTED", "EXCEPTION"} /\ ~hasError) => reason = ""
    /\ ClientStep(
         CASE type = "CHALLENGE" ->
                IF Cl.state = CONNECTING /\ Cl.resolver.challengeHandler
                THEN [Cl EXCEPT !.challenges = @ \cup {Cl.connectionAttempts}]
                ELSE protocolException(Cl, type)
           [] type = "CONNECTED" ->
                IF Cl.state = CONNECTING THEN settle(Cl, READY) ELSE protocolException(Cl, type)
           [] type = "UNCONNECTED" ->
                IF Cl.state = CONNECTING THEN settle(Cl, INITIAL) ELSE protocolException(Cl, type)
           [] type = "DISCONNECTED" ->
                IF Cl.state \in {READY, EXECUTING}
                THEN clientExceptionWith(Cl, "NO_SSH", reasonOr(reason))
                ELSE protocolException(Cl, type)
           [] type = "RESULT" ->
                IF Cl.state = EXECUTING
                THEN IF ~hasError THEN settle(Cl, READY)
                                  ELSE clientExceptionWith(Cl, "SSH_ERROR",
                                                           reasonOr(reason))
                ELSE protocolException(Cl, type)
           [] type \in {"STDOUT", "STDERR"} ->
                IF Cl.state = EXECUTING THEN Cl ELSE protocolException(Cl, type)
           [] type = "EXCEPTION" ->
                clientExceptionWith(Cl, "DAEMON_ERROR", reasonOr(reason))
           [] OTHER -> Cl)

Answers == {"array", "other", "throws"}

attemptCurrentOrLater(c, n) == c.state = CONNECTING

\* if (state !== CONNECTING) return;
\* if (connectionAttempts !== connectionAttemptNumber) return;
attemptCurrent(c, n) == c.state = CONNECTING /\ c.connectionAttempts = n

\* handleChallenge: the challengeHandler invoked for attempt n has answered.
ChallengeHandled(n, answer) ==
    /\ n \in Cl.challenges
    /\ LET c == [Cl EXCEPT !.challenges = @ \ {n}] IN
       ClientStep(
         IF answer = "throws" THEN clientException(c, "CHALLENGE_ERROR")
         ELSE IF ~attemptCurrent(c, n) THEN c
         ELSE IF answer = "array" THEN clientSend(c, "CHALLENGE_RESPONSE")
         ELSE clientException(c, "CHALLENGE_ERROR"))

\* socket.on('error')
ClientSocketError ==
    /\ Cl.socket # "closed"
    /\ ClientStep(clientException(Cl, "NO_DAEMON"))

\* socket.on('close'), and the listener that close() waits with
ClientSocketClose ==
    /\ Cl.socket # "closed"
    /\ LET c == clientException([Cl EXCEPT !.socketHasClosed = TRUE,
                                           !.socket = "closed"], "NO_DAEMON") IN
       ClientStep([c EXCEPT !.closing = IF @ = "waiting" THEN "resolved" ELSE @])

ClientNext ==
    \/ CallReuse
    \/ \E challengeHandler \in ChallengeHandlers : CallConnect(challengeHandler)
    \/ \E isString \in BOOLEAN : CallExec(isString)
    \/ CallClose
    \/ \E type \in DaemonFrames, hasError \in BOOLEAN, reason \in FrameReasons :
          ClientFrame(type, hasError, reason)
    \/ \E n \in 1..MaxAttempts, answer \in Answers : ChallengeHandled(n, answer)
    \/ ClientSocketError
    \/ ClientSocketClose

\* ------------------------------------------------------------ frame parser
MaxFrames == 2
MaxData == 2
MaxChunks == 2

\* The type tags and payload bytes that frames are made of.
FrameTypes == {1, 255}
PayloadBytes == {0, 255}
Payloads == UNION {[1..n -> PayloadBytes] : n \in 0..MaxData}

RECURSIVE concat(_)
\* Buffer.concat(list)
concat(list) == IF list = <<>> THEN <<>> ELSE Head(list) \o concat(Tail(list))

\* buffer.subarray(start, end)
subarray(buffer, start, stop) ==
    SubSeq(buffer, start + 1, IF stop < Len(buffer) THEN stop ELSE Len(buffer))

\* buffer.writeUInt32BE(value, 0)
writeUInt32BE(value) ==
    << (value \div 16777216) % 256, (value \div 65536) % 256,
       (value \div 256) % 256, value % 256 >>

\* buffer.readUInt32BE(0)
readUInt32BE(buffer) ==
    buffer[1] * 16777216 + buffer[2] * 65536 + buffer[3] * 256 + buffer[4]

\* static createFrame(type, data): frame[4] = type keeps the low byte.
createFrame(type, data) == writeUInt32BE(Len(data)) \o <<type % 256>> \o data

\* constructor() and clear()
NewParser == [_chunks |-> <<>>, _chunksSize |-> 0, _expectedSize |-> -1, _frames |-> <<>>]

headerWithoutTag(p) ==
    IF p._expectedSize < 0
    THEN LET chunks == IF Len(p._chunks[1]) < 4 THEN <<concat(p._chunks)>>
                       ELSE p._chunks
         IN [p EXCEPT !._chunks = chunks,
                      !._expectedSize = readUInt32BE(chunks[1]) + 4]
    ELSE p

\* append: determine the incoming frame's size by reading the frame header.
header(p) ==
    IF p._expectedSize < 0
    THEN LET chunks == IF Len(p._chunks[1]) < 4 THEN <<concat(p._chunks)>>
                       ELSE p._chunks
         IN [p EXCEPT !._chunks = chunks,
                      !._expectedSize = readUInt32BE(chunks[1]) + 5]
    ELSE p

completeWithMore(p) == p._chunksSize > p._expectedSize

\* if (this._chunksSize >= this._expectedSize)
complete(p) == p._chunksSize >= p._expectedSize

\* append: if we have a complete frame, slice it out.
slice(p) ==
    LET temp == IF Len(p._chunks) > 1 THEN concat(p._chunks) ELSE p._chunks[1]
        remainder == subarray(temp, p._expectedSize, Len(temp))
    IN [ _chunks |-> IF Len(remainder) > 0 THEN <<remainder>> ELSE <<>>,
         _chunksSize |-> p._chunksSize - p._expectedSize,
         _expectedSize |-> -1,
         _frames |-> Append(p._frames,
                            [type |-> temp[5],
                             data |-> subarray(temp, 5, p._expectedSize)]) ]

RECURSIVE parse(_)
\* append: while (this._chunksSize >= 5)
parse(p) ==
    IF p._chunksSize >= 5
    THEN LET q == header(p) IN IF complete(q) THEN parse(slice(q)) ELSE q
    ELSE p

\* append(chunk)
append(p, chunk) ==
    parse([p EXCEPT !._chunks = Append(@, chunk), !._chunksSize = @ + Len(chunk)])

\* stream.made are the frames given to createFrame, in order; stream.wire are
\* their bytes that have not reached the parser; stream.got are the frames
\* that frames() has yielded.
NewStream == [made |-> <<>>, wire |-> <<>>, got |-> <<>>]

\* A frame is created and written behind the ones before it.
WriteFrame(type, data) ==
    /\ Len(stream.made) < MaxFrames
    /\ stream' = [stream EXCEPT !.made = Append(@, [type |-> type, data |-> data]),
                                !.wire = @ \o createFrame(type, data)]
    /\ UNCHANGED <<daemonVars, client, frameParser, daemon, configDir, starter, pty, input>>

\* socket.on('data'): the next byteLength bytes arrive as one chunk.
Chunk(byteLength) ==
    /\ byteLength <= Len(stream.wire)
    /\ byteLength = 0 => Len(frameParser._chunks) < MaxChunks
    /\ frameParser' = append(frameParser, SubSeq(stream.wire, 1, byteLength))
    /\ stream' = [stream EXCEPT
                    !.wire = SubSeq(@, byteLength + 1, Len(@))]
    /\ UNCHANGED <<daemonVars, client, daemon, configDir, starter, pty, input>>

\* *frames(): the caller takes every parsed frame.
Frames ==
    /\ frameParser._frames # <<>>
    /\ stream' = [stream EXCEPT !.got = @ \o frameParser._frames]
    /\ frameParser' = [frameParser EXCEPT !._frames = <<>>]
    /\ UNCHANGED <<daemonVars, client, daemon, configDir, starter, pty, input>>

ParserNext ==
    \/ \E type \in FrameTypes, data \in Payloads : WriteFrame(type, data)
    \/ \E byteLength \in 0..(MaxFrames * (MaxData + 5)) : Chunk(byteLength)
    \/ Frames

\* The maximum payload length that the protocol description suggests, 16 MiB.
MaxPayload == 16 * 1024 * 1024

\* The payload length above it that a header declares.
LongSizes == {MaxPayload + 1}

\* The peer begins a frame whose header declares byteLength bytes of payload,
\* as the last thing it writes and once everything written before has been
\* parsed: the header and the first bytes of the payload are written.
WriteLong(byteLength, type, data) ==
    /\ Len(stream.made) = MaxFrames
    /\ stream.wire = <<>>
    /\ frameParser._chunksSize = 0
    /\ stream' = [stream EXCEPT !.wire = writeUInt32BE(byteLength) \o <<type>> \o data]
    /\ UNCHANGED <<daemonVars, client, frameParser, daemon, configDir, starter, pty, input>>

LongNext ==
    \/ ParserNext
    \/ \E byteLength \in LongSizes, type \in FrameTypes, data \in Payloads :
          WriteLong(byteLength, type, data)

\* ------------------------------------------------------ daemon start-up
MaxDaemons == 3
MaxStarters == 2

Daemons == 1..MaxDaemons
Starters == 1..MaxStarters

\* A daemon process: where main() is, and whether it has the lock object of
\* acquireLock with closed = false.
NoProcess == [pc |-> "none", lock |-> FALSE]

\* The files of the configuration directory: the process that holds the
\* flock of 'lock' (0: nobody), the pid written in it, and the process whose
\* server made 'sock' (0: no such file).
EmptyDir == [lock |-> 0, pid |-> 0, sock |-> 0]

\* A start-up of a client, sshBridge(configDir): where it is and the daemon
\* that it is connected to.
NotStarted == [pc |-> "none", to |-> 0]

LibStep(daemons, dir, starters) ==
    /\ daemon' = daemons
    /\ configDir' = dir
    /\ starter' = starters
    /\ UNCHANGED <<daemonVars, client, frameParser, stream, pty, input>>

\* net.connect(socketPath): the daemon reached, 0 for ENOENT or ECONNREFUSED.
connect ==
    IF configDir.sock # 0 /\ daemon[configDir.sock].pc = "serving"
    THEN configDir.sock ELSE 0

\* sshBridge(): the first connect; without a daemon one will be spawned.
SshBridge(c) ==
    /\ starter[c].pc = "none"
    /\ LibStep(daemon, configDir,
               [starter EXCEPT ![c] = IF connect # 0
                                      THEN [pc |-> "connected", to |-> connect]
                                      ELSE [pc |-> "spawning", to |-> 0]])

\* spawnDaemon: a new daemon process starts main().
SpawnDaemon(c, d) ==
    /\ starter[c].pc = "spawning"
    /\ daemon[d].pc = "none"
    /\ \A e \in Daemons : e < d => daemon[e].pc # "none"
    /\ LibStep([daemon EXCEPT ![d].pc = "main"], configDir,
               [starter EXCEPT ![c].pc = "polling"])

\* while (!(socket = await connect(socketPath))) ... sleep
Poll(c) ==
    /\ starter[c].pc = "polling"
    /\ connect # 0
    /\ LibStep(daemon, configDir,
               [starter EXCEPT ![c] = [pc |-> "connected", to |-> connect]])

\* if (process.hrtime.bigint() >= timeout) throw
PollTimeout(c) ==
    /\ starter[c].pc = "polling"
    /\ connect = 0
    /\ LibStep(daemon, configDir, [starter EXCEPT ![c].pc = "failed"])

\* The client's connection ends.
Disconnect(c) ==
    /\ starter[c].pc = "connected"
    /\ LibStep(daemon, configDir, [starter EXCEPT ![c].pc = "closed"])

flockAlways(d) == TRUE

\* flockSync(fd, 'exnb'): taken unless another process holds it (EAGAIN).
flockSync(d) == configDir.lock \in {0, d}

\* main: acquireLock(lockPath); without the lock main returns.
AcquireLock(d) ==
    /\ daemon[d].pc = "main"
    /\ IF flockSync(d)
       THEN LibStep([daemon EXCEPT ![d] = [pc |-> "locked", lock |-> TRUE]],
                    [configDir EXCEPT !.lock = d, !.pid = d], starter)
       ELSE LibStep([daemon EXCEPT ![d].pc = "refused"], configDir, starter)

\* main: clearFile(socketPath)
ClearFile(d) ==
    /\ daemon[d].pc = "locked"
    /\ LibStep([daemon EXCEPT ![d].pc = "cleared"],
               [configDir EXCEPT !.sock = 0], starter)

\* The flock of a process that ends is released with its descriptors.
released(d) ==
    [configDir EXCEPT !.lock = IF @ = d THEN 0 ELSE @]

\* main: server.listen(socketPath); an 'error' (EADDRINUSE) rejects main.
Listen(d) ==
    /\ daemon[d].pc = "cleared"
    /\ IF configDir.sock = 0
       THEN LibStep([daemon EXCEPT ![d].pc = "serving"],
                    [configDir EXCEPT !.sock = d], starter)
       ELSE LibStep([daemon EXCEPT ![d] = [pc |-> "failed", lock |-> FALSE]],
                    released(d), starter)

\* unlock() of acquireLock
unlock(d) ==
    IF daemon[d].lock
    THEN [configDir EXCEPT !.lock = IF @ = d THEN 0 ELSE @,
                           !.pid = IF configDir.lock = d THEN 0 ELSE @]
    ELSE configDir

\* main: SIGHUP, SIGINT or SIGTERM while serving: server.close(resolve);
\* abortController.abort(); pool.clear(); lock.unlock().  Closing the server
\* may or may not remove its socket file.
Signal(d, unlinks) ==
    /\ daemon[d].pc = "serving"
    /\ LibStep([daemon EXCEPT ![d] = [pc |-> "closing", lock |-> FALSE]],
               [unlock(d) EXCEPT !.sock = IF @ = d /\ unlinks THEN 0 ELSE @],
               starter)

\* server.close(resolve): every connection has ended and main returns.
ServerClosed(d) ==
    /\ daemon[d].pc = "closing"
    /\ \A c \in Starters : ~(starter[c].pc = "connected" /\ starter[c].to = d)
    /\ LibStep([daemon EXCEPT ![d].pc = "exited"], configDir, starter)

\* The process is killed: its connections end, its files stay.
Kill(d) ==
    /\ daemon[d].pc \in {"main", "locked", "cleared", "serving", "closing"}
    /\ LibStep([daemon EXCEPT ![d] = [pc |-> "killed", lock |-> FALSE]],
               released(d),
               [c \in Starters |->
                   IF starter[c].pc = "connected" /\ starter[c].to = d
                   THEN [starter[c] EXCEPT !.pc = "closed"] ELSE starter[c]])

LockNext ==
    \/ \E c \in Starters :
         \/ SshBridge(c)
         \/ \E d \in Daemons : SpawnDaemon(c, d)
         \/ Poll(c)
         \/ PollTimeout(c)
         \/ Disconnect(c)
    \/ \E d \in Daemons :
         \/ AcquireLock(d)
         \/ ClearFile(d)
         \/ Listen(d)
         \/ \E unlinks \in BOOLEAN : Signal(d, unlinks)
         \/ ServerClosed(d)
         \/ Kill(d)

\* ------------------------------------------------------------ window size
\* The size of the pseudo-terminal that connection.exec(command, { pty: true })
\* allocates.
DefaultRows == 24
DefaultCols == 80

\* The dimensions that a RESIZE frame carries.
Dimensions == {-1, 0, 1, 100, 512, 1000, 2000}

\* One handler in Ready or Executing with its session: hasPTY, liveChannel and
\* queuedResize of the session, the rows and columns of the channel's
\* pseudo-terminal (0 without one), and the RESIZE frame that the last step
\* received.
NoTerminal ==
    [ state |-> READY, hasPTY |-> FALSE, liveChannel |-> FALSE,
      queuedResize |-> <<>>, rows |-> 0, cols |-> 0, frame |-> <<>> ]

WindowStep(w) ==
    /\ pty' = w
    /\ UNCHANGED <<daemonVars, client, frameParser, stream, daemon, configDir, starter,
                   input>>

\* The switch of the handler has no case for RESIZE: the frame is passed over.
FrameRESIZE(rows, cols) ==
    /\ pty.state \in {READY, EXECUTING}
    /\ WindowStep([pty EXCEPT !.frame = <<rows, cols>>])

\* case PTY_COMMAND / SIMPLE_COMMAND in Ready: ssh.exec(command, pty), which
\* sets hasPTY = !!pty.
WindowCommand(isPty) ==
    /\ pty.state = READY
    /\ WindowStep([pty EXCEPT !.state = EXECUTING, !.hasPTY = isPty, !.frame = <<>>])

\* The callback of connection.exec with a channel: a queued resize is applied
\* with channel.setWindow and the queue is emptied.
WindowChannel ==
    /\ pty.state = EXECUTING /\ ~pty.liveChannel
    /\ LET rows == IF pty.queuedResize # <<>> THEN pty.queuedResize[1]
                   ELSE IF pty.hasPTY THEN DefaultRows ELSE 0
           cols == IF pty.queuedResize # <<>> THEN pty.queuedResize[2]
                   ELSE IF pty.hasPTY THEN DefaultCols ELSE 0
       IN WindowStep([pty EXCEPT !.liveChannel = TRUE, !.queuedResize = <<>>,
                                 !.rows = rows, !.cols = cols, !.frame = <<>>])

\* The callback of connection.exec with an error, or channel.on('close'): the
\* result goes to the handler, which is Ready again.
WindowResult ==
    /\ pty.state = EXECUTING
    /\ WindowStep(NoTerminal)

WindowNext ==
    \/ \E rows \in Dimensions, cols \in Dimensions : FrameRESIZE(rows, cols)
    \/ \E isPty \in BOOLEAN : WindowCommand(isPty)
    \/ WindowChannel
    \/ WindowResult

\* ------------------------------------------------------ stdin of a command
MaxInput == 3

\* frame.data of a STDIN frame: two chunks of bytes that differ, and the empty
\* chunk, which is the end of the input.
EOF == 0
StdinData == {EOF, 1, 2}

\* A session that is ready, with its handler: the handler's state, and of the
\* session's closure reusable, liveChannel (with liveChannel.writable),
\* queuedInputData, queuedInputEnd and whether the callback of
\* connection.exec is outstanding.  received are the STDIN frames that the
\* handler has passed on for the command, written is what the command's
\* channel has been given, owners counts the handlers that the session has
\* had.
NoInput ==
    [ state |-> READY, conn |-> "ready", reusable |-> TRUE, owners |-> 1,
      pending |-> FALSE, liveChannel |-> FALSE, writable |-> FALSE,
      queuedInputData |-> <<>>, queuedInputEnd |-> FALSE,
      received |-> <<>>, written |-> <<>> ]

InputStep(i) ==
    /\ input' = i
    /\ UNCHANGED <<daemonVars, client, frameParser, stream, daemon, configDir, starter,
                   pty>>

\* writeStdin(data)
queueWrite(i, data) ==
    IF i.liveChannel
    THEN IF i.writable THEN [i EXCEPT !.written = Append(@, data)] ELSE i
    ELSE IF ~i.queuedInputEnd THEN [i EXCEPT !.queuedInputData = Append(@, data)]
    ELSE i

\* endStdin()
queueEnd(i) ==
    IF i.liveChannel
    THEN IF i.writable THEN [i EXCEPT !.written = Append(@, EOF), !.writable = FALSE]
                       ELSE i
    ELSE [i EXCEPT !.queuedInputEnd = TRUE]

resetKeepsQueue(i) == i

\* queuedInputData = []; queuedInputEnd = false;
reset(i) == [i EXCEPT !.queuedInputData = <<>>, !.queuedInputEnd = FALSE]

\* The callback of connection.exec with a channel: the queue is written to
\* the channel, which is ended if the end of input was queued.
flush(i) ==
    reset([i EXCEPT !.pending = FALSE,
                    !.liveChannel = TRUE,
                    !.writable = ~i.queuedInputEnd,
                    !.written = i.queuedInputData
                                   \o (IF i.queuedInputEnd THEN <<EOF>> ELSE <<>>)])

\* emitter.on('result') of the handler.
inputResult(i) == IF i.state = EXECUTING THEN [i EXCEPT !.state = READY] ELSE i

\* case FrameParser.SIMPLE_COMMAND / PTY_COMMAND in Ready, with ssh.exec.
InputCommand ==
    /\ input.conn = "ready"
    /\ input.state = READY
    /\ InputStep([input EXCEPT !.state = EXECUTING, !.pending = TRUE,
                               !.received = <<>>, !.written = <<>>])

\* case FrameParser.STDIN
InputSTDIN(data) ==
    /\ input.conn = "ready"
    /\ input.state # ERRORED
    /\ Len(input.received) < MaxInput
    /\ InputStep(IF input.state = EXECUTING
                 THEN LET i == [input EXCEPT !.received = Append(@, data)] IN
                      IF data # EOF THEN queueWrite(i, data) ELSE queueEnd(i)
                 ELSE input)

\* The callback of connection.exec.
InputExecCallback(opened) ==
    /\ input.conn = "ready"
    /\ input.pending
    /\ InputStep(IF opened THEN flush(input)
                 ELSE inputResult(reset([input EXCEPT !.pending = FALSE,
                                                      !.reusable = FALSE])))

\* The server closes its end of the channel: the channel is no longer
\* writable, and its 'close' event follows.
InputChannelEnds ==
    /\ input.conn = "ready"
    /\ input.liveChannel
    /\ input.writable
    /\ InputStep([input EXCEPT !.writable = FALSE])

\* channel.on('close')
InputChannelClose ==
    /\ input.conn = "ready"
    /\ input.liveChannel
    /\ InputStep(inputResult([input EXCEPT !.liveChannel = FALSE, !.writable = FALSE]))

\* A frame that the handler's state does not allow: exception().
InputUnexpected ==
    /\ input.conn = "ready"
    /\ input.state # ERRORED
    /\ InputStep([input EXCEPT !.state = ERRORED])

\* socket.on('close') with relinquish(state === READY): the connection is
\* ended, or the session is stored and a later handler takes it with REUSE.
InputSocketClose ==
    /\ input.conn = "ready"
    /\ InputStep(IF input.state = READY /\ input.reusable
                 THEN [input EXCEPT !.owners = IF @ < 2 THEN @ + 1 ELSE @]
                 ELSE [input EXCEPT !.state = ERRORED, !.conn = "ended"])

InputNext ==
    \/ InputCommand
    \/ \E data \in StdinData : InputSTDIN(data)
    \/ \E opened \in BOOLEAN : InputExecCallback(opened)
    \/ InputChannelEnds
    \/ InputChannelClose
    \/ InputUnexpected
    \/ InputSocketClose

\* ---------------------------------------------------------------- initial
Init ==
    /\ handler = [h \in Handlers |-> ClosedHandler]
    /\ session = [s \in Sessions |-> FreeSession]
    /\ cachedConnections = EmptyMap
    /\ cachedCredentials = EmptyMap
    /\ aborted = FALSE
    /\ note = NoNote
    /\ timers = NoTimers
    /\ client = NewClient
    /\ frameParser = NewParser
    /\ stream = NewStream
    /\ daemon = [d \in Daemons |-> NoProcess]
    /\ configDir = EmptyDir
    /\ starter = [c \in Starters |-> NotStarted]
    /\ pty = NoTerminal
    /\ input = NoInput

\* A handler slot that a new client can take.
FreeHandler(h) ==
    /\ handler[h].socket = "closed"
    /\ \A s \in Sessions : session[s].conn # "closed" => session[s].emitter # h

\* server.on('connection', handler): a new client connects.  A slot is free
\* once its socket has closed and no connection still emits to its emitter.
Accept(h) ==
    /\ ~aborted
    /\ FreeHandler(h)
    /\ \A g \in Handlers : g < h => ~FreeHandler(g)
    /\ Commit([H EXCEPT ![h] = NewHandler], session, cachedConnections,
              cachedCredentials, aborted, NoNote)

\* ------------------------------------------------ handler.js: the frames
\* case FrameParser.REUSE, with pool.reuse.
FrameREUSE(h, raw) ==
    LET hr == H[h]
        params == reuseParams(raw)
        plainKey == getCacheKey(params.username, params.hostname, params.port)
        cacheKey == IF params.shareKey # ""
                    THEN getExtendedCacheKey(plainKey, params.shareKey) ELSE plainKey
        s == MapGet(cachedConnections, cacheKey)
        connecting == [hr EXCEPT !.state = CONNECTING]
    IN
    /\ hr.socket = "open"
    /\ hr.state # INITIAL => raw = Unread(RawReuse)
    /\ IF hr.state # INITIAL
       THEN Commit([H EXCEPT ![h] = exception(hr, "unexpected REUSE frame")],
                   session, cachedConnections, cachedCredentials, aborted, Unexpected)
       ELSE IF ~params.valid
       THEN Commit([H EXCEPT ![h] = exception(hr, "malformed REUSE parameters")],
                   session, cachedConnections, cachedCredentials, aborted, Rejected)
       ELSE IF s # NULL
       THEN Commit([H EXCEPT ![h] =
                       [onConnected(connecting, _reuse(session[s])) EXCEPT !.ssh = s]],
                   [session EXCEPT ![s] = [clearTimeout(@) EXCEPT !.emitter = h,
                                                                  !.cleanupKey = NoKey,
                                                                  !.keptBy = ""]],
                   reuseDelete(cachedConnections, cacheKey),
                   cachedCredentials, aborted, <<"REUSE", "reused", session[s].keptBy>>)
       ELSE Commit([H EXCEPT ![h] =
                       [onUnconnected(connecting, plainReason("no cached connection to reuse"))
                            EXCEPT !.ssh = NULL]],
                   session, cachedConnections, cachedCredentials, aborted,
                   <<"REUSE", "nothing cached", "">>)

\* pool.connect up to connection.connect(): the credentials of the attempt.
keyDropped(auth) ==
    IF auth.privateKey = "bad" /\ (auth.password # "" \/ auth.tryKeyboard)
    THEN [auth EXCEPT !.privateKey = ""] ELSE auth

keyDenied(auth) ==
    auth.privateKey = "bad" /\ ~(auth.password # "" \/ auth.tryKeyboard)

noCredentials(auth) ==
    auth.privateKey = "" /\ auth.password = "" /\ ~auth.tryKeyboard

\* case FrameParser.CONNECT, with pool.connect.
FrameCONNECT(h, raw) ==
    LET hr == H[h]
        params == connectParams(raw)
        cacheKey == getCacheKey(params.username, params.hostname, params.port)
        auth1 == keyDropped(params.auth)
        reusing == noCredentials(auth1) /\ MapHas(cachedCredentials, cacheKey)
        auth == IF reusing THEN cachedCredentials[cacheKey] ELSE auth1
        connecting == [hr EXCEPT !.state = CONNECTING]
    IN
    /\ hr.socket = "open"
    /\ hr.state # INITIAL => raw = Unread(RawConnect)
    /\ IF hr.state # INITIAL
       THEN Commit([H EXCEPT ![h] = exception(hr, "unexpected CONNECT frame")],
                   session, cachedConnections, cachedCredentials, aborted, Unexpected)
       ELSE IF ~params.valid
       THEN Commit([H EXCEPT ![h] = exception(hr, "malformed CONNECT parameters")],
                   session, cachedConnections, cachedCredentials, aborted, Rejected)
       ELSE IF keyDenied(params.auth)
       THEN Commit([H EXCEPT ![h] =
                       [onUnconnected(connecting, plainReason("authentication denied"))
                            EXCEPT !.ssh = NULL]],
                   session, cachedConnections, cachedCredentials, aborted, NoNote)
       ELSE IF noCredentials(auth1) /\ ~MapHas(cachedCredentials, cacheKey)
       THEN Commit([H EXCEPT ![h] =
                       [onUnconnected(connecting, plainReason("no credentials provided"))
                            EXCEPT !.ssh = NULL]],
                   session, cachedConnections, cachedCredentials, aborted, NoNote)
       ELSE /\ FreeSlots # {}
            /\ Commit([H EXCEPT ![h] = [connecting EXCEPT !.ssh = NewSlot]],
                      [session EXCEPT ![NewSlot] =
                          [FreeSession EXCEPT !.conn = "handshake", !.cacheKey = cacheKey,
                                              !.reusable = params.reusable, !.auth = auth,
                                              !.reusingCredentials = reusing,
                                              !.fingerprint = params.fingerprint,
                                              !.emitter = h]],
                      cachedConnections, cachedCredentials, aborted, NoNote)

\* case FrameParser.CHALLENGE_RESPONSE, with ssh.challengeResponse.
lateResponseInAnyState(hr) == TRUE

\* The states in which a CHALLENGE_RESPONSE frame that no challenge waits
\* for is passed over.
lateResponse(hr) == hr.state = INITIAL \/ hr.state = READY

FrameCHALLENGE_RESPONSE(h, wellFormed) ==
    LET hr == H[h] IN
    /\ hr.socket = "open"
    /\ hr.state # CONNECTING => wellFormed = Unread(BOOLEAN)
    /\ IF hr.state = CONNECTING
       THEN IF wellFormed
            THEN Commit(H, [session EXCEPT ![hr.ssh].challengeCallbacks =
                                               IF @ > 0 THEN @ - 1 ELSE @],
                        cachedConnections, cachedCredentials, aborted, NoNote)
            ELSE Commit([H EXCEPT ![h] =
                            exception(hr, "malformed CHALLENGE_RESPONSE parameters")],
                        session, cachedConnections, cachedCredentials, aborted, Rejected)
       ELSE IF ~lateResponse(hr)
       THEN Commit([H EXCEPT ![h] = exception(hr, "unexpected CHALLENGE_RESPONSE frame")],
                   session, cachedConnections, cachedCredentials, aborted, Unexpected)
       ELSE Commit(H, session, cachedConnections, cachedCredentials, aborted, NoNote)

\* decode.command
Commands == {"ls", "", "a\nb"}

commandNonEmpty(str) == isNonEmptyString(str)

\* decode.command: a non-empty string without control characters.
command(str) == isNonEmptyString(str) /\ str # "a\nb"

commandAcceptedWhileExecuting(hr) == hr.state \in {READY, EXECUTING}

\* The state in which the handler lets a command through to ssh.exec.
commandAccepted(hr) == hr.state = READY

\* case FrameParser.SIMPLE_COMMAND / PTY_COMMAND, with ssh.exec.
FrameCOMMAND(h, str) ==
    LET hr == H[h] IN
    /\ hr.socket = "open"
    /\ ~commandAccepted(hr) => str = Unread(Commands)
    /\ IF ~commandAccepted(hr)
       THEN Commit([H EXCEPT ![h] = exception(hr, "unexpected *_COMMAND frame")],
                   session, cachedConnections, cachedCredentials, aborted, Unexpected)
       ELSE IF ~command(str)
       THEN Commit([H EXCEPT ![h] = exception(hr, "malformed command string")],
                   session, cachedConnections, cachedCredentials, aborted, Rejected)
       ELSE /\ session[hr.ssh].pendingExec + session[hr.ssh].liveChannel < MaxChannels
            /\ Commit([H EXCEPT ![h].state = EXECUTING],
                      [session EXCEPT ![hr.ssh].pendingExec = @ + 1],
                      cachedConnections, cachedCredentials, aborted, NoNote)

stdinAcceptedWithSession(hr) == hr.ssh # NULL

\* The state in which the handler passes a STDIN frame on to the session.
stdinAccepted(hr) == hr.state = EXECUTING

\* What a STDIN frame did: its bytes or its end of input went to the live
\* channel (which takes them if it is writable), went to the queue (seen in
\* the session), or the frame was ignored.
stdinNote(hr) ==
    IF ~stdinAccepted(hr) THEN <<"STDIN", "ignored">>
    ELSE IF session[hr.ssh].liveChannel > 0 THEN <<"STDIN", "channel">>
    ELSE NoNote

\* case FrameParser.STDIN; byteLength is that of frame.data.
FrameSTDIN(h, byteLength) ==
    LET hr == H[h] IN
    /\ hr.socket = "open"
    /\ ~stdinAccepted(hr) => byteLength = Unread(ByteLengths)
    /\ IF stdinAccepted(hr)
       THEN /\ byteLength > 0 => session[hr.ssh].queuedInputData < MaxQueued
            /\ Commit(H,
                      [session EXCEPT ![hr.ssh] =
                          IF byteLength > 0 THEN writeStdin(@) ELSE endStdin(@)],
                      cachedConnections, cachedCredentials, aborted, stdinNote(hr))
       ELSE Commit(H, session, cachedConnections, cachedCredentials, aborted,
                   stdinNote(hr))

\* A frame whose type the switch has no case for (RESIZE among them): the
\* loop goes on to the next frame.
FrameOther(h) ==
    /\ H[h].socket = "open"
    /\ Commit(H, session, cachedConnections, cachedCredentials, aborted, NoNote)

\* relinquish draws randomBytes only when reuse is 'SHARE'; the calls below
\* pass true or false and never reach it.
NoRandom == ""

\* randomBytes draws any key; the keys are interchangeable, so the key
\* drawn for a session that has not been shared before is taken to be "5f".
FirstDraw(hr) ==
    hr.state = READY /\ hr.ssh # NULL /\ session[hr.ssh].sharedAs = ""

\* case FrameParser.SHARE: ssh.relinquish(true, shareKey).
FrameSHARE(h, shareKey) ==
    LET hr == H[h] IN
    /\ hr.socket = "open"
    /\ (hr.state # READY \/ FirstDraw(hr)) => shareKey = "5f"
    /\ IF hr.state = READY
       THEN Commit([H EXCEPT ![h] =
                       sendJSON([hr EXCEPT !.ssh = NULL, !.state = INITIAL],
                                "SHARED", plainReason(shareKey))],
                   sharedAs(keptBy(relinquishSessions(session, cachedConnections, hr.ssh,
                                                      "true", NoRandom), hr.ssh, "SHARE"),
                            hr.ssh, shareKey),
                   relinquishMap(session, cachedConnections, hr.ssh, "true", NoRandom),
                   cachedCredentials, aborted,
                   <<"SHARE", relinquishNote(session, cachedConnections, hr.ssh,
                                             "true", NoRandom)>>)
       ELSE Commit([H EXCEPT ![h] = exception(hr, "unexpected SHARE frame")],
                   session, cachedConnections, cachedCredentials, aborted, Unexpected)

closeReuseAlways(hr) == "true"

\* The argument the socket's close handler passes to relinquish.
closeReuse(hr) == IF hr.state = READY THEN "true" ELSE "false"

\* socket.on('close').  Nothing reads what a closed handler has sent.
SocketClose(h) ==
    LET hr == H[h] IN
    /\ hr.socket \in {"open", "ending"}
    /\ IF hr.ssh # NULL
       THEN Commit([H EXCEPT ![h] = ClosedHandler],
                   keptBy(relinquishSessions(session, cachedConnections, hr.ssh,
                                             closeReuse(hr), NoRandom), hr.ssh, "close"),
                   relinquishMap(session, cachedConnections, hr.ssh,
                                 closeReuse(hr), NoRandom),
                   cachedCredentials, aborted,
                   <<"close", relinquishNote(session, cachedConnections, hr.ssh,
                                             closeReuse(hr), NoRandom)>>)
       ELSE Commit([H EXCEPT ![h] = ClosedHandler],
                   session, cachedConnections, cachedCredentials, aborted, NoNote)

\* pool.clear(): every idle session is removed and relinquished with false.
clear(sess) ==
    [s \in Sessions |->
        IF \E k \in DOMAIN cachedConnections : cachedConnections[k] = s
        THEN end(sess[s]) ELSE sess[s]]

\* The shutdown sequence of main(): abortController.abort() runs onAbort of
\* every handler whose socket has not closed, then pool.clear().
Shutdown ==
    /\ ~aborted
    /\ Commit([h \in Handlers |->
                  IF H[h].socket # "closed" THEN onAbort(H[h]) ELSE H[h]],
              clear(session), EmptyMap, cachedCredentials, TRUE, NoNote)

\* ------------------------------------------------- pool.js: ssh2's events
\* hostVerifier of connection.connect(): checkFingerprint.
SshHostKey(s, hex) ==
    LET sr == session[s]
        receivedFingerprint == hexToBase64(hex)
    IN
    /\ sr.conn = "handshake"
    /\ Commit(H,
              [session EXCEPT ![s] =
                  IF sr.fingerprint = ""
                  THEN [sr EXCEPT !.fingerprint = receivedFingerprint, !.conn = "auth"]
                  ELSE IF sr.fingerprint = receivedFingerprint
                  THEN [sr EXCEPT !.conn = "auth"]
                  ELSE [sr EXCEPT !.conn = "rejected",
                                  !.fingerprintMismatch =
                                      <<sr.fingerprint, receivedFingerprint>>]],
              cachedConnections, cachedCredentials, aborted, NoNote)

\* connection.on('banner')
SshBanner(s, message) ==
    /\ session[s].conn = "auth"
    /\ session[s].banner = ""
    /\ Commit(H,
              [session EXCEPT ![s].banner =
                  IF endsWithNewline(message) THEN message ELSE "hi\n"],
              cachedConnections, cachedCredentials, aborted, NoNote)

\* connection.on('keyboard-interactive'): ssh2 asks only when tryKeyboard.
SshKeyboardInteractive(s) ==
    LET sr == session[s] IN
    /\ sr.conn = "auth"
    /\ sr.auth.tryKeyboard
    /\ sr.challengeCallbacks < MaxChallenges
    /\ Commit(Emit(sr, onChallenge(Listener(sr))),
              [session EXCEPT ![s].hadChallenges = TRUE,
                              ![s].challengeCallbacks = @ + 1],
              cachedConnections, cachedCredentials, aborted, NoNote)

\* Once a connection is ready nothing reads the credentials and the expected
\* fingerprint of the attempt any more.
Authenticated(sr) ==
    [sr EXCEPT !.auth = NoAuth, !.reusingCredentials = FALSE, !.hadChallenges = FALSE,
               !.fingerprint = ""]

\* connection.on('ready')
SshReady(s) ==
    LET sr == session[s]
        info == [fingerprint |-> sr.fingerprint, banner |-> sr.banner]
    IN
    /\ sr.conn = "auth"
    /\ Commit(Emit(sr, onConnected(Listener(sr), info)),
              [session EXCEPT ![s] =
                  [Authenticated(sr) EXCEPT !.conn = "ready", !.connectInfo = info,
                                            !.announced = info,
                                            !.challengeCallbacks = 0, !.banner = ""]],
              cachedConnections,
              IF shouldCache(sr)
              THEN MapSet(cachedCredentials, sr.cacheKey, sanitize(sr.auth, FreshId))
              ELSE cachedCredentials,
              aborted,
              IF shouldCache(sr)
              THEN <<"ready", IF sr.auth.tryKeyboard THEN "cached without tryKeyboard"
                                                     ELSE "cached">>
              ELSE NoNote)

\* The levels of the errors ssh2 reports in each phase of a connection.
ErrorLevels(conn) ==
    CASE conn = "handshake" -> {"client-timeout", "client-socket"}
      [] conn = "rejected" -> {"handshake"}
      [] conn = "auth" -> {"client-authentication", "client-timeout"}
      [] conn = "ready" -> {"client-socket"}
      [] OTHER -> {}

\* connection.on('error').  ssh2 tears the connection down after it, and the
\* 'close' event that follows returns at once (done).
SshError(s, level) ==
    LET sr == session[s] IN
    /\ level \in ErrorLevels(sr.conn)
    /\ ~sr.done
    /\ Commit(EmitTermination(sr, errorReason(level, sr.fingerprintMismatch)),
              [session EXCEPT ![s] = FreeSession],
              TerminationCleanup(s, sr),
              IF shouldEvict(sr, level) /\ sameRecord(sr)
              THEN MapDelete(cachedCredentials, sr.cacheKey)
              ELSE cachedCredentials,
              aborted,
              IF shouldEvict(sr, level)
              THEN <<"error", IF sameRecord(sr) THEN "evicted" ELSE "not evicted">>
              ELSE terminationNote(s, sr))

\* connection.on('close'): the server or the network closed the connection,
\* or the teardown after end() has finished.  Nothing refers to the
\* connection afterwards.
SshClose(s) ==
    LET sr == session[s] IN
    /\ sr.conn # "closed"
    /\ ~sr.done
    /\ Commit(EmitTermination(sr, plainReason("remote connection closed unexpectedly")),
              [session EXCEPT ![s] = FreeSession],
              TerminationCleanup(s, sr),
              cachedCredentials, aborted, terminationNote(s, sr))

\* The retention timer set by relinquish: cleanup(), then connection.end().
TimerFire(s) ==
    LET sr == session[s] IN
    /\ sr.ttlTimer # NoTimer
    /\ Commit(H,
              [session EXCEPT ![s] = end(clearTimeout(sr))],
              cleanup(cachedConnections, sr.ttlTimer.key, s),
              cachedCredentials, aborted, NoNote)

\* A retention timer whose connection relinquish(false) ended before the
\* timer was due: cleanup() compares the idle entry with a connection that is
\* in no slot any more, and connection.end() has nothing left to end.
Former == MaxSessions + 1

StaleTimerFire(key) ==
    /\ key \in timers.keys
    /\ note' = <<"timer", "stale">>
    /\ timers' = [timers EXCEPT !.keys = @ \ {key}]
    /\ cachedConnections' = cleanup(cachedConnections, key, Former)
    /\ handler' = H
    /\ UNCHANGED <<session, cachedCredentials, aborted, client, libVars>>

\* ------------------------------------------------ pool.js: exec's channel
\* The callback of connection.exec: the channel opened, or failed to open.
ExecCallback(s, opened) ==
    LET sr == session[s] IN
    /\ sr.conn = "ready"
    /\ sr.pendingExec > 0
    /\ IF opened
       THEN Commit(H,
                   [session EXCEPT ![s].pendingExec = @ - 1,
                                   ![s].liveChannel = @ + 1,
                                   ![s].channelError = FALSE,
                                   ![s].queuedInputData = 0,
                                   ![s].queuedInputEnd = FALSE],
                   cachedConnections, cachedCredentials, aborted, NoNote)
       ELSE Commit(Emit(sr, onResult(Listener(sr), plainReason("error"))),
                   [session EXCEPT ![s] = [sshLevelError(@) EXCEPT
                                              !.pendingExec = @ - 1,
                                              !.queuedInputData = 0,
                                              !.queuedInputEnd = FALSE]],
                   cachedConnections, cachedCredentials, aborted, NoNote)

\* channel.on('error') and channel.stderr.on('error')
ChannelError(s) ==
    /\ session[s].conn = "ready"
    /\ session[s].liveChannel > 0
    /\ ~session[s].channelError
    /\ Commit(H, [session EXCEPT ![s].channelError = TRUE],
              cachedConnections, cachedCredentials, aborted, NoNote)

OutputFrames == {"STDOUT", "STDERR"}

\* channel.on('data') and channel.stderr.on('data')
ChannelData(s, type) ==
    LET sr == session[s] IN
    /\ sr.conn = "ready"
    /\ sr.liveChannel > 0
    /\ Commit(Emit(sr, onOutput(Listener(sr), type)),
              session, cachedConnections, cachedCredentials, aborted, NoNote)

\* channel.on('close')
ChannelClose(s) ==
    LET sr == session[s] IN
    /\ sr.conn = "ready"
    /\ sr.liveChannel > 0
    /\ Commit(Emit(sr, onResult(Listener(sr),
                  plainReason(IF sr.channelError THEN "error" ELSE "code"))),
              [session EXCEPT ![s] = [(IF sr.channelError THEN sshLevelError(@) ELSE @)
                                         EXCEPT !.liveChannel = @ - 1,
                                                !.channelError = FALSE]],
              cachedConnections, cachedCredentials, aborted, NoNote)

\* What the clients in `clients` do, but for STDIN frames and frames of a
\* type the handler has no case for.
ClientSteps(clients) ==
    \/ \E h \in clients : Accept(h)
    \/ \E h \in clients, raw \in RawReuse : FrameREUSE(h, raw)
    \/ \E h \in clients, raw \in RawConnect : FrameCONNECT(h, raw)
    \/ \E h \in clients, wellFormed \in BOOLEAN : FrameCHALLENGE_RESPONSE(h, wellFormed)
    \/ \E h \in clients, str \in Commands : FrameCOMMAND(h, str)
    \/ \E h \in clients, shareKey \in ShareKeys : FrameSHARE(h, shareKey)
    \/ \E h \in clients : SocketClose(h)

\* The shutdown, ssh2's events and the retention timers, but for the output
\* of a command.
DaemonSteps ==
    \/ Shutdown
    \/ \E s \in Sessions, hex \in HexFingerprints : SshHostKey(s, hex)
    \/ \E s \in Sessions, message \in BannerMessages : SshBanner(s, message)
    \/ \E s \in Sessions : SshKeyboardInteractive(s)
    \/ \E s \in Sessions : SshReady(s)
    \/ \E s \in Sessions : \E level \in ErrorLevels(session[s].conn) : SshError(s, level)
    \/ \E s \in Sessions : SshClose(s)
    \/ \E s \in Sessions : TimerFire(s)
    \/ \E s \in Sessions, opened \in BOOLEAN : ExecCallback(s, opened)
    \/ \E s \in Sessions : ChannelError(s)
    \/ \E s \in Sessions : ChannelClose(s)

\* STDIN frames, frames of other types, and the output of a command.
IOSteps(clients) ==
    \/ \E h \in clients, byteLength \in ByteLengths : FrameSTDIN(h, byteLength)
    \/ \E h \in clients : FrameOther(h)
    \/ \E s \in Sessions, type \in OutputFrames : ChannelData(s, type)

PoolNext == ClientSteps(Handlers) \/ DaemonSteps

Next == ClientSteps(Handlers) \/ DaemonSteps \/ IOSteps(Handlers)

Spec == Init /\ [][Next]_vars

OneClient == {1}

IONext == ClientSteps(OneClient) \/ DaemonSteps \/ IOSteps(OneClient)

\* The steps of IOSteps change the stdin queue of a session and what a
\* handler writes to its client, and nothing that the pool reads.  PoolSpec
\* leaves them out and is the specification of the properties of the pool,
\* which need two clients; IOSpec has every step and one client connection
\* at a time, and is the specification of the properties of a single handler.
PoolSpec == Init /\ [][PoolNext]_vars

IOSpec == Init /\ [][IONext]_vars

\* The client of create-client.js with the daemon as its environment: any
\* frame can arrive at any time.
ClientSpec == Init /\ [][ClientNext]_vars

ParserSpec == Init /\ [][ParserNext]_vars

LockSpec == Init /\ [][LockNext]_vars

WindowSpec == Init /\ [][WindowNext]_vars

\* The stdin of the commands of one session.
InputSpec == Init /\ [][InputNext]_vars

\* The frame parser with a peer that also sends frames longer than 16 MiB.
LongSpec == Init /\ [][LongNext]_vars

\* The client after close() and the close of its socket.
ClosedClient ==
    [NewClient EXCEPT !.state = ERRORED, !.socket = "closed", !.socketHasClosed = TRUE,
                      !.error = terminalError("CLOSED"), !.closing = "resolved"]

\* The two ends of the protocol, each while the other is at rest: the daemon
\* with one client connection while the caller-side client has been closed,
\* and the caller-side client while the daemon has shut down.
FsmInit ==
    /\ handler = [h \in Handlers |-> ClosedHandler]
    /\ session = [s \in Sessions |-> FreeSession]
    /\ cachedConnections = EmptyMap
    /\ cachedCredentials = EmptyMap
    /\ note = NoNote
    /\ timers = NoTimers
    /\ frameParser = NewParser
    /\ stream = NewStream
    /\ daemon = [d \in Daemons |-> NoProcess]
    /\ configDir = EmptyDir
    /\ starter = [c \in Starters |-> NotStarted]
    /\ pty = NoTerminal
    /\ input = NoInput
    /\ \/ aborted = FALSE /\ client = ClosedClient
       \/ aborted = TRUE /\ client = NewClient

FsmNext == IONext \/ ClientNext

\* The pool with one client connection at a time and with the timers that
\* outlive their connection.
RetentionInit ==
    /\ handler = [h \in Handlers |-> ClosedHandler]
    /\ session = [s \in Sessions |-> FreeSession]
    /\ cachedConnections = EmptyMap
    /\ cachedCredentials = EmptyMap
    /\ aborted = FALSE
    /\ note = NoNote
    /\ timers = KeptTimers
    /\ client = NewClient
    /\ frameParser = NewParser
    /\ stream = NewStream
    /\ daemon = [d \in Daemons |-> NoProcess]
    /\ configDir = EmptyDir
    /\ starter = [c \in Starters |-> NotStarted]
    /\ pty = NoTerminal
    /\ input = NoInput

RetentionNext ==
    \/ ClientSteps(OneClient)
    \/ DaemonSteps
    \/ \E key \in timers.keys : StaleTimerFire(key)

RetentionSpec == RetentionInit /\ [][RetentionNext]_vars

FsmSpec == FsmInit /\ [][FsmNext]_vars
\* ------------------------------------------------------------ properties
\* A session is alive when it has authenticated and is neither closed nor
\* being closed by connection.end().
alive(s) == session[s].conn = "ready"

\* The handlers whose `ssh` is the session, and the keys under which the idle
\* map holds it.
Attached(s) == {h \in Handlers : handler[h].ssh = s}

Idle(s) == {k \in DOMAIN cachedConnections : cachedConnections[k] = s}

\* C1: every alive session is attached to exactly one handler or stored as
\* exactly one entry of the idle map: never both, never two handlers, never
\* neither.
C1_SessionOwnedOnce ==
    \A s \in Sessions :
        alive(s) => Cardinality(Attached(s)) + Cardinality(Idle(s)) = 1

\* The cache key that a REUSE or CONNECT request names.
requestKey(raw) == getCacheKey(raw.username, toLowerCase(raw.hostname), raw.port)

\* What a REUSE step notes.
ReuseNotes ==
    {<<"REUSE", "reused", "close">>, <<"REUSE", "reused", "SHARE">>,
     <<"REUSE", "nothing cached", "">>}

connectedFrame(info) == [type |-> "CONNECTED", data |-> info]

unconnectedFrame(reason) == [type |-> "UNCONNECTED", data |-> plainReason(reason)]

\* C2: a REUSE that finds an idle session under its key hands it to the
\* requesting handler alone and removes the entry in the same step; a REUSE
\* that finds no entry under its key is answered UNCONNECTED 'no cached
\* connection to reuse'.
ReuseHandsOverOnce ==
    \A h \in Handlers, raw \in RawReuse :
        (/\ note' \in ReuseNotes
         /\ handler[h].state = INITIAL
         /\ reuseParams(raw).valid
         /\ FrameREUSE(h, raw)) =>
            LET s == MapGet(cachedConnections, requestKey(raw)) IN
            IF s # NULL
            THEN /\ handler'[h].ssh = s
                 /\ handler'[h].state = READY
                 /\ handler'[h].sent.type = "CONNECTED"
                 /\ \A g \in Handlers \ {h} : handler'[g].ssh # s
                 /\ requestKey(raw) \notin DOMAIN cachedConnections'
                 /\ \A k \in DOMAIN cachedConnections' : cachedConnections'[k] # s
            ELSE /\ handler'[h].sent = unconnectedFrame("no cached connection to reuse")
                 /\ handler'[h].ssh = NULL
                 /\ handler'[h].state = INITIAL
                 /\ cachedConnections' = cachedConnections

C2_ReuseHandsOverOnce == [][ReuseHandsOverOnce]_vars

\* A REUSE has just taken the idle session, the entry is gone, and a second
\* client is connected and has not asked yet.
C2_Witness ==
    \E h \in Handlers, g \in Handlers :
        /\ g # h
        /\ note \in ReuseNotes
        /\ handler[h].sent.type = "CONNECTED"
        /\ handler[h].ssh # NULL
        /\ Idle(handler[h].ssh) = {}
        /\ handler[g].state = INITIAL

\* C3: the idle map holds only sessions whose connection is open, each under
\* one key, and a retention timer runs only for a session that the map
\* holds; when an idle session's connection errors or closes, its entry is
\* gone after that step.
IdleSessionsAreOpen ==
    /\ \A k \in DOMAIN cachedConnections :
           /\ cachedConnections[k] # NULL
           /\ session[cachedConnections[k]].conn = "ready"
           /\ session[cachedConnections[k]].emitter = POOL
           /\ Idle(cachedConnections[k]) = {k}
    /\ \A s \in Sessions : session[s].ttlTimer # NoTimer => Idle(s) # {}

IdleDisconnectFreesSlot ==
    \A s \in Sessions :
        (Idle(s) # {} /\ session'[s].conn # "ready"
         /\ (SshClose(s) \/ \E level \in ErrorLevels(session[s].conn) :
                                             SshError(s, level))) =>
            /\ \A k \in Idle(s) : k \notin DOMAIN cachedConnections'
            /\ session'[s].ttlTimer = NoTimer

C3_IdleNeverClosed == [][IdleSessionsAreOpen' /\ IdleDisconnectFreesSlot]_vars

\* An idle session's connection has just closed and the map is empty again.
C3_Witness ==
    /\ note = <<"disconnected", "idle entry removed">>
    /\ cachedConnections = EmptyMap

\* C4: when a session is installed under a key that holds a different idle
\* session, that session is no longer alive after the step and the key
\* holds the new one; no alive session of the pool's own emitter exists
\* outside the map, so each cache key has at most one.
Installed(s, k) ==
    /\ k \in DOMAIN cachedConnections' /\ cachedConnections'[k] = s
    /\ ~(k \in DOMAIN cachedConnections /\ cachedConnections[k] = s)

ReplacedIsClosed ==
    \A s \in Sessions, k \in DOMAIN cachedConnections' :
        (Installed(s, k) /\ k \in DOMAIN cachedConnections) =>
            /\ session'[cachedConnections[k]].conn # "ready"
            /\ Cardinality({t \in Sessions : session'[t].conn = "ready"
                                             /\ session'[t].emitter = POOL
                                             /\ session'[t].cacheKey = session'[s].cacheKey}) = 1

OneIdlePerKey ==
    \A s \in Sessions, u \in Sessions :
        (/\ session[s].conn = "ready" /\ session[s].emitter = POOL
         /\ session[u].conn = "ready" /\ session[u].emitter = POOL
         /\ session[s].cacheKey = session[u].cacheKey) => s = u

ClosedInReadyIsStored ==
    \A h \in Handlers :
        (/\ handler[h].state = READY /\ handler[h].ssh # NULL
         /\ session[handler[h].ssh].reusable
         /\ handler'[h].socket = "closed"
         /\ SocketClose(h)) =>
            /\ MapGet(cachedConnections', session[handler[h].ssh].cacheKey) = handler[h].ssh
            /\ session'[handler[h].ssh].announced = session[handler[h].ssh].announced

IdleEntryStays ==
    \A k \in DOMAIN cachedConnections :
        LET s == cachedConnections[k] IN
        \/ MapGet(cachedConnections', k) = s
        \/ TimerFire(s)
        \/ SshClose(s)
        \/ \E level \in ErrorLevels(session[s].conn) : SshError(s, level)
        \/ Shutdown
        \/ /\ note' \in ReuseNotes
           /\ \E h \in Handlers, raw \in RawReuse : handler'[h].ssh = s /\ FrameREUSE(h, raw)
        \/ \E u \in Sessions \ {s} : Installed(u, k)

ReuseRepeatsConnected ==
    \A h \in Handlers, raw \in RawReuse :
        (/\ note' \in ReuseNotes
         /\ handler[h].state = INITIAL
         /\ reuseParams(raw).valid
         /\ MapHas(cachedConnections, requestKey(raw))
         /\ FrameREUSE(h, raw)) =>
            handler'[h].sent =
                connectedFrame(session[cachedConnections[requestKey(raw)]].announced)

C5_ReuseRepeatsConnected ==
    [][ClosedInReadyIsStored /\ IdleEntryStays /\ ReuseRepeatsConnected]_vars

\* A REUSE has just taken a session that a socket close in Ready had stored,
\* and has been answered with a fingerprint and a banner.
C5_Witness ==
    \E h \in Handlers :
        /\ note = <<"REUSE", "reused", "close">>
        /\ handler[h].sent = connectedFrame([fingerprint |-> "qg==", banner |-> "hi\n"])

\* C6: when a handler's socket closes while it holds a session, the session
\* is stored in the idle map iff the handler is Ready and the session is
\* reusable; otherwise the session is closed and the map holds no entry for
\* it.
CloseKeepsIffReadyAndReusable ==
    \A h \in Handlers :
        (/\ note' \in {<<"close", "ended">>, <<"close", "kept">>,
                       <<"close", "kept, replacing">>}
         /\ handler[h].ssh # NULL
         /\ SocketClose(h)) =>
            LET s == handler[h].ssh IN
            IF handler[h].state = READY /\ session[s].reusable
            THEN /\ MapGet(cachedConnections', session[s].cacheKey) = s
                 /\ session'[s].conn = "ready"
                 /\ session'[s].emitter = POOL
            ELSE /\ session'[s].conn # "ready"
                 /\ \A k \in DOMAIN cachedConnections' : cachedConnections'[k] # s

C6_CloseKeepsIffReadyAndReusable == [][CloseKeepsIffReadyAndReusable]_vars

\* A socket has just closed in Ready and its reusable session is idle.
C6_Witness ==
    /\ note = <<"close", "kept">>
    /\ \E s \in Sessions : Idle(s) # {} /\ session[s].reusable

\* C7: no session has more than one pending or live command channel, a
\* session has one only while its handler is Executing, and an idle session
\* has none.
channels(s) == session[s].pendingExec + session[s].liveChannel

C7_OneChannelPerSession ==
    \A s \in Sessions :
        /\ channels(s) <= 1
        /\ Idle(s) # {} => channels(s) = 0
        /\ channels(s) = 1 =>
               \E h \in Handlers : handler[h].ssh = s /\ handler[h].state = EXECUTING

\* A command's channel is live while its handler is Executing.
C7_Witness ==
    \E h \in Handlers :
        /\ handler[h].state = EXECUTING
        /\ handler[h].ssh # NULL
        /\ session[handler[h].ssh].liveChannel = 1

\* C8: a CONNECT without credentials for a key with a cached record starts
\* an attempt with that record; when such an attempt fails with
\* client-authentication while its record is still the cached one, the
\* handler that waits for it is answered UNCONNECTED 'authentication denied'
\* and the key has no cached record afterwards; a CONNECT without
\* credentials for a key without a cached record is answered UNCONNECTED 'no
\* credentials provided' and starts no connection.
CredentialLessUsesCache ==
    \A h \in Handlers, raw \in RawConnect :
        (/\ handler[h].state = INITIAL /\ handler[h].socket = "open"
         /\ connectParams(raw).valid
         /\ noCredentials(raw.auth)
         /\ FrameCONNECT(h, raw)) =>
            IF MapHas(cachedCredentials, requestKey(raw))
            THEN /\ handler'[h].state = CONNECTING
                 /\ handler'[h].ssh # NULL
                 /\ session[handler'[h].ssh].conn = "closed"
                 /\ session'[handler'[h].ssh].conn = "handshake"
                 /\ session'[handler'[h].ssh].auth = cachedCredentials[requestKey(raw)]
                 /\ session'[handler'[h].ssh].reusingCredentials
            ELSE /\ handler'[h].sent = unconnectedFrame("no credentials provided")
                 /\ handler'[h].state = INITIAL
                 /\ handler'[h].ssh = NULL
                 /\ \A s \in Sessions : session[s].conn = "closed" => session'[s].conn = "closed"

DeniedEvicts ==
    \A s \in Sessions :
        (/\ session[s].conn = "auth"
         /\ session[s].reusingCredentials
         /\ MapHas(cachedCredentials, session[s].cacheKey)
         /\ cachedCredentials[session[s].cacheKey] = session[s].auth
         /\ session'[s].conn = "closed"
         /\ SshError(s, "client-authentication")) =>
            /\ session[s].cacheKey \notin DOMAIN cachedCredentials'
            /\ \A h \in Handlers :
                   (session[s].emitter = h /\ handler[h].state = CONNECTING
                    /\ handler[h].socket = "open") =>
                       /\ handler'[h].sent = unconnectedFrame("authentication denied")
                       /\ handler'[h].state = INITIAL

C8_DeniedCachedCredentialsEvicted == [][CredentialLessUsesCache /\ DeniedEvicts]_vars

\* An attempt with the cached record has just been denied: its client is told
\* so and the key has no record any more.
C8_Witness ==
    \E h \in Handlers :
        /\ note = <<"error", "evicted">>
        /\ handler[h].sent = unconnectedFrame("authentication denied")
        /\ cachedCredentials = EmptyMap

\* C9: a key of cachedCredentials gets a record only in the step in which an
\* attempt for that key becomes ready, having used the caller's credentials
\* and having seen no keyboard-interactive challenge; the record is the
\* caller's credentials with tryKeyboard false, and every record of the
\* cache has tryKeyboard false.
Written(k) ==
    /\ k \in DOMAIN cachedCredentials'
    /\ k \notin DOMAIN cachedCredentials \/ cachedCredentials'[k] # cachedCredentials[k]

WrittenOnlyAtReady ==
    \A k \in DOMAIN cachedCredentials' :
        Written(k) =>
            \E s \in Sessions :
                /\ session[s].conn = "auth" /\ session'[s].conn = "ready"
                /\ session[s].cacheKey = k
                /\ ~session[s].reusingCredentials
                /\ ~session[s].hadChallenges
                /\ cachedCredentials'[k].privateKey = session[s].auth.privateKey
                /\ cachedCredentials'[k].password = session[s].auth.password

StoredWithoutKeyboard ==
    \A k \in DOMAIN cachedCredentials : cachedCredentials[k].tryKeyboard = FALSE

C9_CredentialsWrittenOnlyAtReady == [][WrittenOnlyAtReady /\ StoredWithoutKeyboard']_vars

\* Credentials have just been cached by an attempt that offered
\* keyboard-interactive and was not challenged.
C9_Witness ==
    /\ note = <<"ready", "cached without tryKeyboard">>
    /\ cachedCredentials # EmptyMap
    /\ StoredWithoutKeyboard

\* C10: when an attempt that uses a cached record fails with
\* client-authentication while the key holds a different record, the step
\* leaves that record in the cache.
EvictionSparesNewRecord ==
    \A s \in Sessions :
        (/\ session[s].conn = "auth"
         /\ session[s].reusingCredentials
         /\ MapHas(cachedCredentials, session[s].cacheKey)
         /\ cachedCredentials[session[s].cacheKey] # session[s].auth
         /\ session'[s].conn = "closed"
         /\ SshError(s, "client-authentication")) =>
            /\ MapHas(cachedCredentials', session[s].cacheKey)
            /\ cachedCredentials'[session[s].cacheKey] = cachedCredentials[session[s].cacheKey]

C10_EvictionSparesNewRecord == [][EvictionSparesNewRecord]_vars

\* An attempt with an old record has just been denied and the key still has
\* the record that a later attempt stored.
C10_Witness ==
    /\ note = <<"error", "not evicted">>
    /\ cachedCredentials # EmptyMap

\* C11: a REUSE that carries no shareKey never takes a session that a SHARE
\* made idle: it is answered UNCONNECTED 'no cached connection to reuse' and
\* the shared entry stays.
ShareKeyRequired ==
    \A h \in Handlers, raw \in RawReuse :
        (/\ note' \in ReuseNotes
         /\ handler[h].state = INITIAL
         /\ reuseParams(raw).valid
         /\ raw.shareKey = ""
         /\ \E s \in Sessions : Idle(s) # {} /\ session[s].keptBy = "SHARE"
         /\ FrameREUSE(h, raw)) =>
            /\ handler'[h].sent = unconnectedFrame("no cached connection to reuse")
            /\ cachedConnections' = cachedConnections

C11_ShareKeyRequired == [][ShareKeyRequired]_vars

sharedFrame(shareKey) == [type |-> "SHARED", data |-> plainReason(shareKey)]

ShareNotes == {<<"SHARE", "ended">>, <<"SHARE", "kept">>, <<"SHARE", "kept, replacing">>}

\* C12: a SHARE of a session that has been shared before reports the share
\* key that its first SHARED reported.
SameShareKey ==
    \A h \in Handlers, shareKey \in ShareKeys :
        (/\ note' \in ShareNotes
         /\ handler[h].state = READY
         /\ handler[h].ssh # NULL
         /\ session[handler[h].ssh].sharedAs # ""
         /\ FrameSHARE(h, shareKey)) =>
            handler'[h].sent = sharedFrame(session[handler[h].ssh].sharedAs)

C12_SameShareKey == [][SameShareKey]_vars

\* C13: a SHARE frame in Ready stores the session in the idle map under the
\* extended key (user, host, port, shareKey), also when the session was
\* connected with reusable = false; the reply is SHARED and the handler is
\* back in Initial with no session, where CONNECT and REUSE are accepted.
ShareStoresUnderShareKey ==
    \A h \in Handlers, shareKey \in ShareKeys :
        (/\ note' \in ShareNotes /\ handler[h].state = READY /\ handler[h].ssh # NULL
         /\ FrameSHARE(h, shareKey)) =>
            LET s == handler[h].ssh
                key == getExtendedCacheKey(session[s].cacheKey, shareKey)
            IN /\ handler'[h].sent = sharedFrame(shareKey)
               /\ handler'[h].state = INITIAL
               /\ handler'[h].ssh = NULL
               /\ MapHas(cachedConnections', key)
               /\ cachedConnections'[key] = s
               /\ session'[s].conn = session[s].conn

C13_ShareStoresUnderShareKey == [][ShareStoresUnderShareKey]_vars

\* The retention period the claim gives an idle entry: 5 seconds after a
\* share, 12 hours after a keep.
retention(s) ==
    IF session[s].keptBy = "SHARE" THEN SHARED_CONNECTIONS_TTL ELSE CACHED_CONNECTIONS_TTL

\* The timer of an idle session fires: the entry leaves the idle map and the
\* SSH session is closed, so that a later REUSE finds nothing under the key.
ExpiryEvictsAndCloses ==
    \A s \in Sessions :
        (/\ session[s].ttlTimer # NoTimer /\ Idle(s) # {}
         /\ TimerFire(s)) =>
            /\ \A k \in Idle(s) : ~MapHas(cachedConnections', k)
            /\ ~(session'[s].conn = "ready")

\* C14: the retention timer of an idle entry runs 12 hours after a keep and
\* 5 seconds after a share; when it fires before the session is reused, the
\* entry is removed from the idle map and the SSH session is closed.
ExpiryAfterRetention ==
    /\ ExpiryEvictsAndCloses
    /\ \A s \in Sessions :
        (session[s].ttlTimer # NoTimer /\ Idle(s) # {} /\ TimerFire(s)) =>
            session[s].ttlTimer.ttl = retention(s)

C14_ExpiryAfterRetention == [][ExpiryAfterRetention]_vars

C14_ExpiryEvictsAndCloses == [][ExpiryEvictsAndCloses]_vars

\* The handler that listens to session s, when there is one.
listener(s) == session[s].emitter

Executes(s) ==
    /\ session[s].conn = "ready"
    /\ listener(s) # POOL
    /\ handler[listener(s)].state = EXECUTING

\* The abort signal arrives: a handler that is Executing keeps its state and
\* its socket, every other handler whose socket is not closed is Errored and
\* its socket no longer open.
AbortSparesExecuting ==
    Shutdown =>
        \A h \in Handlers :
            IF handler[h].state = EXECUTING
            THEN handler'[h].state = EXECUTING /\ handler'[h].socket = "open"
            ELSE handler'[h].state = ERRORED /\ handler'[h].socket # "open"

\* After the abort signal a handler that is Executing still forwards the
\* output of its command ...
AbortedStillForwards ==
    \A s \in Sessions, type \in OutputFrames :
        (aborted /\ Executes(s) /\ ChannelData(s, type)) =>
            /\ handler'[listener(s)].sent.type = type
            /\ handler'[listener(s)].state = EXECUTING
            /\ handler'[listener(s)].socket = "open"

\* ... and when the command ends it sends RESULT, is Errored and closes its
\* socket in that same step.
AbortedClosesAfterResult ==
    \A s \in Sessions :
        (aborted /\ Executes(s)
         /\ (ChannelClose(s) \/ ExecCallback(s, FALSE))) =>
            /\ handler'[listener(s)].sent.type = "RESULT"
            /\ handler'[listener(s)].state = ERRORED
            /\ handler'[listener(s)].socket = "ending"

\* C15: the abort signal leaves a handler that is Executing as it is, with
\* its socket open; the handler goes on forwarding STDOUT and STDERR, sends
\* RESULT when the command ends and only then closes its socket.  In any
\* other state the abort signal makes the handler Errored and closes its
\* socket at once.
AbortWaitsForResult ==
    /\ AbortSparesExecuting
    /\ AbortedStillForwards
    /\ AbortedClosesAfterResult

C15_AbortWaitsForResult == [][AbortWaitsForResult]_vars

\* After the abort signal, a handler that was Executing has just sent the
\* RESULT of a command that ran to its end, and is closing its socket.
C15_Witness ==
    /\ aborted
    /\ \E h \in Handlers :
        /\ handler[h].sent = [type |-> "RESULT", data |-> plainReason("code")]
        /\ handler[h].state = ERRORED
        /\ handler[h].socket = "ending"

Live(h) == handler[h].socket = "open" /\ handler[h].state # ERRORED

Raised(h) == handler'[h].sent.type = "EXCEPTION" /\ handler'[h].state = ERRORED

PassedOver(h) ==
    /\ handler' = H
    /\ session' = session
    /\ cachedConnections' = cachedConnections
    /\ cachedCredentials' = cachedCredentials

\* REUSE and CONNECT outside Initial, a command or SHARE outside Ready.
OutOfStateRaises(h) ==
    /\ (handler[h].state # INITIAL /\ \E raw \in RawReuse : FrameREUSE(h, raw))
           => Raised(h)
    /\ (handler[h].state # INITIAL /\ \E raw \in RawConnect : FrameCONNECT(h, raw))
           => Raised(h)
    /\ (handler[h].state # READY /\ \E str \in Commands : FrameCOMMAND(h, str))
           => Raised(h)
    /\ (handler[h].state # READY /\ \E shareKey \in ShareKeys : FrameSHARE(h, shareKey))
           => Raised(h)

\* C16 as stated: a frame, other than STDIN, of a type that the table of
\* legal input does not list for the handler's state makes the handler send
\* EXCEPTION and enter Errored; CHALLENGE_RESPONSE is listed for Connecting
\* and Ready only, and a type the daemon does not know for no state.
IllegalFrameRaises ==
    \A h \in Handlers :
        Live(h) =>
            /\ OutOfStateRaises(h)
            /\ (handler[h].state \in {INITIAL, EXECUTING}
                /\ \E wellFormed \in BOOLEAN : FrameCHALLENGE_RESPONSE(h, wellFormed))
                   => Raised(h)
            /\ FrameOther(h) => Raised(h)

IllegalFrameRaisesOrLate ==
    \A h \in Handlers :
        Live(h) =>
            /\ OutOfStateRaises(h)
            /\ (handler[h].state = EXECUTING
                /\ \E wellFormed \in BOOLEAN : FrameCHALLENGE_RESPONSE(h, wellFormed))
                   => Raised(h)
            /\ (handler[h].state \in {INITIAL, READY}
                /\ \E wellFormed \in BOOLEAN : FrameCHALLENGE_RESPONSE(h, wellFormed))
                   => PassedOver(h)
            /\ FrameOther(h) => PassedOver(h)

StdinOutsideExecutingIgnored ==
    \A h \in Handlers :
        (/\ handler[h].socket = "open" /\ handler[h].state # EXECUTING
         /\ \E byteLength \in ByteLengths : FrameSTDIN(h, byteLength)) =>
            /\ PassedOver(h)
            /\ note' = <<"STDIN", "ignored">>

C17_StdinOutsideExecutingIgnored == [][StdinOutsideExecutingIgnored]_vars

\* A STDIN frame has just been passed over by a handler that is Ready.
C17_Witness ==
    /\ note = <<"STDIN", "ignored">>
    /\ \E h \in OneClient : handler[h].state = READY

\* ------------------------------------------------------------ the client
Operation(method) ==
    CASE method = "reuse" -> CallReuse
      [] method = "connect" -> CallConnect("function") \/ CallConnect("null")
      [] method = "exec" -> CallExec(TRUE)

Operations == {"reuse", "connect", "exec"}

expected(method) == IF method = "exec" THEN READY ELSE INITIAL

\* The method failed with the given error and did nothing else: no frame, and
\* the client's state, attempt counter and pending operation as before.
Refused(method, error) ==
    /\ client'.call.method = method
    /\ client'.call.outcome = "rejected"
    /\ client'.call.error = error
    /\ method = "exec" => client'.call.streams = error
    /\ client'.sent = "NONE"
    /\ client'.settled = NoSettle
    /\ client'.state = client.state
    /\ client'.connectionAttempts = client.connectionAttempts
    /\ client'.resolver = client.resolver

\* C18: connect and reuse are accepted in Initial only and exec in Ready only;
\* invoked in another state that is not Errored the method fails with the
\* TypeError "Method not available in the current state" (for exec the result
\* promise is rejected and stdout and stderr are destroyed with it), no frame
\* is sent, and the state, the attempt counter and the pending operation stay
\* as they are.
MethodNeedsItsState ==
    \A method \in Operations :
        /\ (client.state \notin {expected(method), ERRORED} /\ Operation(method))
               => Refused(method, StateError)
        /\ (client.state = expected(method) /\ Operation(method))
               => /\ client'.call.outcome = "pending"
                  /\ client'.resolver.kind = method

C18_MethodNeedsItsState == [][MethodNeedsItsState]_vars

\* exec has just been refused while connect or reuse is pending.
C18_Witness ==
    /\ client.call = Called("exec", "rejected", StateError, StateError)
    /\ client.state = CONNECTING
    /\ client.resolver # NoResolver

AnyOperation == \E method \in Operations : Operation(method)

\* C19: close() makes the client Errored in the step of the call, rejects
\* the pending operation, if there is one, with the error CLOSED, and never
\* rejects its own promise, which is resolved only when the socket's close
\* event has occurred; connect, reuse and exec invoked after close() fail
\* with the TypeError "Client is closed" and not with the error CLOSED.
CloseCloses ==
    /\ CallClose =>
          /\ client'.state = ERRORED
          /\ client'.call.outcome \in {"pending", "resolved"}
          /\ client'.call.error = NoError
          /\ client.resolver # NoResolver =>
                 /\ client'.settled.kind = client.resolver.kind
                 /\ client'.settled.how = "rejected"
                 /\ client'.settled.error = terminalError("CLOSED")
          /\ client'.resolver = NoResolver
    /\ client'.closing = "resolved" => client'.socketHasClosed
    /\ (client.closing # "none" /\ AnyOperation) =>
          /\ client'.call.outcome = "rejected"
          /\ client'.call.error = ClosedError(client.error)
          /\ client'.sent = "NONE"

C19_CloseCloses == [][CloseCloses]_vars

\* close() was called on a client that was not Errored, the socket has
\* closed and the promise of close() is resolved, and a method invoked after
\* that has just failed with the TypeError whose cause is the error CLOSED.
C19_Witness ==
    /\ client.closing = "resolved"
    /\ client.call.outcome = "rejected"
    /\ client.call.error = ClosedError(terminalError("CLOSED"))

\* C20 as stated: after a terminal error that struck while no operation was
\* pending, the next invocation of a method fails with exactly that error.
StashRaisedByNextMethod ==
    (client.owed /\ AnyOperation) =>
        /\ client'.call.outcome = "rejected"
        /\ client'.call.error = client.error

C20_StashRaisedByNextMethod == [][StashRaisedByNextMethod]_vars

\* C20 for the code: after a terminal error that struck while no operation
\* was pending, the next invocation of connect, reuse or exec fails with
\* exactly that error, unless close() was called first: close() discards the
\* stashed error without raising it.  Every later invocation, and every
\* invocation after close(), fails with the TypeError "Client is closed" that
\* has the terminal error as its cause.  The stashed error is raised at most
\* once.
StashRaisedOnceUnlessClosed ==
    /\ (client.owed /\ client.closing = "none" /\ AnyOperation) =>
          /\ client'.call.outcome = "rejected"
          /\ client'.call.error = client.error
          /\ client'.error = client.error
    /\ (client.state = ERRORED /\ (~client.owed \/ client.closing # "none")
        /\ AnyOperation) =>
          /\ client'.call.outcome = "rejected"
          /\ client'.call.error = ClosedError(client.error)
    /\ (client.owed /\ CallClose) =>
          /\ client'.call.error = NoError
          /\ ~client'.hasNewException
          /\ client'.raised = client.raised
    /\ client'.raised <= 1

C20_StashRaisedOnceUnlessClosed == [][StashRaisedOnceUnlessClosed]_vars

\* The stashed error, which is not that of close(), has been raised once, and
\* a later invocation has just failed with the TypeError that has it as its
\* cause.
C20_Witness ==
    /\ client.raised = 1
    /\ client.closing = "none"
    /\ client.call.outcome = "rejected"
    /\ client.call.error = ClosedError(client.error)

\* ------------------------------------------------- terminal error kinds

\* The client has just recorded the terminal error of this kind and reason.
Became(type, reason) ==
    /\ client'.state = ERRORED
    /\ client'.error = terminalErrorWith(type, reason)

\* The states in which the client awaits a frame of this type from the daemon.
awaited(type) ==
    CASE type = "CHALLENGE" ->
           IF client.resolver.challengeHandler THEN {CONNECTING} ELSE {}
      [] type \in {"CONNECTED", "UNCONNECTED"} -> {CONNECTING}
      [] type = "DISCONNECTED" -> {READY, EXECUTING}
      [] type \in {"RESULT", "STDOUT", "STDERR"} -> {EXECUTING}
      [] type = "EXCEPTION" -> {INITIAL, CONNECTING, READY, EXECUTING}
      [] OTHER -> {}

FrameErrorKind(type, hasError, reason) ==
    CASE type = "EXCEPTION" -> Became("DAEMON_ERROR", reasonOr(reason))
      [] client.state \notin awaited(type) ->
           Became("PROTOCOL_ERROR", "unexpected " \o type \o " frame")
      [] type = "DISCONNECTED" -> Became("NO_SSH", reasonOr(reason))
      [] type = "RESULT" /\ hasError -> Became("SSH_ERROR", reasonOr(reason))
      [] OTHER -> client'.state # ERRORED

ErrorKindByEvent ==
    /\ client.state = ERRORED =>
         client'.state = ERRORED /\ client'.error = client.error
    /\ client.state # ERRORED =>
         /\ ClientSocketError \/ ClientSocketClose => Became("NO_DAEMON", "")
         /\ CallClose => Became("CLOSED", "")
         /\ \A n \in 1..MaxAttempts :
              /\ ChallengeHandled(n, "throws") => Became("CHALLENGE_ERROR", "")
              /\ ChallengeHandled(n, "other")
                   /\ client.state = CONNECTING /\ client.connectionAttempts = n
                   => Became("CHALLENGE_ERROR", "")
         /\ \A type \in DaemonFrames, hasError \in BOOLEAN, reason \in FrameReasons :
              ClientFrame(type, hasError, reason) =>
                  FrameErrorKind(type, hasError, reason)

\* C21: the terminal error that the client records is the one of the event
\* that made it Errored: NO_DAEMON for a socket error or close, NO_SSH with the
\* frame's reason for DISCONNECTED in Ready or Executing, DAEMON_ERROR with its
\* reason for EXCEPTION in any state, SSH_ERROR for a RESULT with an error
\* field, PROTOCOL_ERROR for a daemon frame that the current state does not
\* await, CHALLENGE_ERROR for a challenge handler that throws or returns a
\* non-array, CLOSED for close(); an Errored client keeps its first error.
C21_ErrorKindByEvent == [][ErrorKindByEvent]_vars


\* ------------------------------------------- pending operation on error

Errs == client.state # ERRORED /\ client'.state = ERRORED

\* C22: whenever the client becomes Errored while connect, reuse or exec is
\* pending, that operation's promise is rejected with the terminal error that
\* is recorded and the resolver is cleared; the stdout and stderr of a pending
\* exec are destroyed with the same error; an Errored client has no pending
\* operation.
PendingRejectedOnError ==
    /\ (Errs /\ client.resolver # NoResolver) =>
          /\ client'.settled.kind = client.resolver.kind
          /\ client'.settled.how = "rejected"
          /\ client'.settled.error = client'.error
          /\ client'.error.name = "Error"
          /\ client.resolver.kind = "exec" =>
                 client'.settled.streams = client'.error
    /\ client'.state = ERRORED => client'.resolver = NoResolver

C22_PendingRejectedOnError == [][PendingRejectedOnError]_vars

\* A DISCONNECTED frame has just ended a running exec: its result promise is
\* rejected and its streams are destroyed with the NO_SSH error.
C22_Witness ==
    /\ client.state = ERRORED
    /\ client.settled.kind = "exec"
    /\ client.settled.how = "rejected"
    /\ client.settled.streams = terminalErrorWith("NO_SSH", "denied")


\* ------------------------------------------------------ frames round trip

RECURSIVE encoded(_)
\* The number of bytes that the first k frames made take on the wire.
encoded(k) == IF k = 0 THEN 0 ELSE encoded(k - 1) + 5 + Len(stream.made[k].data)

\* The frames whose last byte has reached the parser.
Arrived ==
    LET bytes == encoded(Len(stream.made)) - Len(stream.wire) IN
    SubSeq(stream.made, 1,
           Cardinality({k \in 1..Len(stream.made) : encoded(k) <= bytes}))

\* C23: the frames that append() and frames() hand out are exactly the frames
\* (type, data) given to createFrame whose last byte has arrived, in the same
\* order and each once, however the bytes were cut into chunks; a frame of
\* which a byte is missing is not handed out.
FramesRoundTrip == stream.got \o frameParser._frames = Arrived

C23_FramesRoundTrip == FramesRoundTrip

\* One frame has been taken and the next one, with its header read, still
\* lacks its last byte.
C23_Witness ==
    /\ Len(stream.got) = 1
    /\ stream.got[1].type = 255
    /\ frameParser._expectedSize = 7
    /\ frameParser._chunksSize = 6
    /\ Len(frameParser._chunks) = 2


\* ------------------------------------------------------- single instance

Holders == {d \in Daemons : daemon[d].lock}

Serving == {d \in Daemons : daemon[d].pc = "serving"}

\* Every daemon that was spawned has finished its start-up and none has been
\* signalled or killed.
StartedUp ==
    /\ \E d \in Daemons : daemon[d].pc # "none"
    /\ \A d \in Daemons : daemon[d].pc \in {"none", "serving", "refused"}

\* C24: at most one daemon holds the lock; a daemon that accepts clients
\* holds the lock, also while an earlier daemon is finishing its shutdown, so
\* every client that connects reaches the lock holder; a daemon that cannot
\* take the lock exits and leaves the socket file as it is; start-ups that
\* each spawn a daemon end up with one serving daemon.
SingleInstance ==
    /\ Cardinality({d \in Daemons : daemon'[d].lock}) <= 1
    /\ \A d \in Daemons :
         /\ daemon'[d].pc = "serving" => daemon'[d].lock /\ configDir'.lock = d
         /\ daemon'[d].pc \in {"refused", "none", "main"} => configDir'.sock # d
         /\ (AcquireLock(d) /\ configDir.lock \notin {0, d}) =>
               /\ daemon'[d].pc = "refused"
               /\ configDir' = configDir
    /\ \A c \in Starters :
         (starter[c].pc # "connected" /\ starter'[c].pc = "connected") =>
             daemon'[starter'[c].to].lock
    /\ StartedUp' => Cardinality({d \in Daemons : daemon'[d].pc = "serving"}) = 1

C24_Overlap ==
    \E d, e \in Daemons :
        /\ daemon[d].pc = "closing" /\ daemon[e].pc = "serving"
        /\ \E c \in Starters : starter[c].pc = "connected" /\ starter[c].to = d


\* ------------------------------------------------------- window clamping

MaxDimension == 512

\* A dimension of a RESIZE frame as it is to be applied to an axis.
clamped(value, current) ==
    IF value <= 0 THEN current
    ELSE IF value > MaxDimension THEN MaxDimension ELSE value

\* C25: a RESIZE frame received while a command runs on a pseudo-terminal
\* sets each axis of its window to the received dimension clamped to
\* [1, 512] (rows=1000, cols=2000 gives 512 by 512); a dimension of 0 or less
\* leaves that axis as it is and the other axis is still updated.
WindowClamped ==
    \A rows \in Dimensions, cols \in Dimensions :
        (FrameRESIZE(rows, cols) /\ pty.hasPTY /\ pty.liveChannel) =>
            /\ pty'.rows = clamped(rows, pty.rows)
            /\ pty'.cols = clamped(cols, pty.cols)

C25_WindowClamped == [][WindowClamped]_vars


\* ------------------------------------------------------ malformed frames

\* Handler h has sent EXCEPTION and is Errored; the pool is as it was, no
\* connection was made, taken from the pool or ended, and no command or
\* challenge answer went to a session.
RaisedOnly(h) ==
    /\ Raised(h)
    /\ handler'[h].ssh = handler[h].ssh
    /\ cachedConnections' = cachedConnections
    /\ cachedCredentials' = cachedCredentials
    /\ \A s \in Sessions :
         /\ session'[s].conn = session[s].conn
         /\ session'[s].emitter = session[s].emitter
         /\ session'[s].pendingExec <= session[s].pendingExec
         /\ session'[s].liveChannel <= session[s].liveChannel

\* C26: a REUSE or CONNECT frame in Initial whose parameters fail validation,
\* a CHALLENGE_RESPONSE frame in Connecting that is not an array of answers,
\* and a command frame in Ready whose string fails validation make the
\* handler send EXCEPTION (and neither UNCONNECTED nor RESULT) and enter
\* Errored, and start nothing in the pool or on a connection.
MalformedRaises ==
    \A h \in Handlers :
        Live(h) =>
            /\ \A raw \in RawReuse :
                 (handler[h].state = INITIAL /\ raw.username = "" /\ FrameREUSE(h, raw))
                     => RaisedOnly(h)
            /\ \A raw \in RawConnect :
                 (handler[h].state = INITIAL /\ raw.username = "" /\ FrameCONNECT(h, raw))
                     => RaisedOnly(h)
            /\ (handler[h].state = CONNECTING /\ FrameCHALLENGE_RESPONSE(h, FALSE))
                     => RaisedOnly(h)
            /\ \A str \in {"", "a\nb"} :
                 (handler[h].state = READY /\ FrameCOMMAND(h, str)) => RaisedOnly(h)

C26_MalformedRaises == [][MalformedRaises]_vars

\* A command string with a line break has just arrived in Ready.
C26_Witness ==
    /\ note = Rejected
    /\ handler[1].state = ERRORED
    /\ handler[1].sent.type = "EXCEPTION"
    /\ handler[1].ssh # NULL
    /\ session[handler[1].ssh].conn = "ready"


\* ------------------------------------------------- answers to an attempt

\* This step takes a CONNECT or REUSE frame of handler h in Initial.
Attempts(h) ==
    /\ handler[h].state = INITIAL
    /\ \/ \E raw \in RawReuse : FrameREUSE(h, raw)
       \/ \E raw \in RawConnect : FrameCONNECT(h, raw)

Answered(h) == handler'[h].sent.type \in {"CONNECTED", "UNCONNECTED"}

\* C27: CONNECTED or UNCONNECTED is sent only for an attempt that is open
\* (the handler is Connecting, or takes the CONNECT or REUSE in this step) and
\* ends it, so an attempt has at most one answer; an attempt ends only with
\* an answer, with the handler Errored or with its socket closed; CONNECTED
\* leaves the handler Ready, UNCONNECTED leaves it in Initial without a
\* session, and there a well-formed CONNECT or REUSE is taken again.
OneAnswer ==
    \A h \in Handlers :
        /\ Answered(h) =>
              /\ handler[h].state = CONNECTING \/ Attempts(h)
              /\ handler'[h].sent.type = "CONNECTED" => handler'[h].state = READY
              /\ handler'[h].sent.type = "UNCONNECTED" =>
                    /\ handler'[h].state = INITIAL
                    /\ handler'[h].ssh = NULL
                    /\ \A s \in Sessions :
                         session'[s].conn \notin {"closed", "ended"} =>
                             session'[s].emitter # h
        /\ (handler[h].state = CONNECTING /\ handler'[h].state # CONNECTING) =>
              \/ Answered(h)
              \/ handler'[h].state = ERRORED
              \/ handler'[h].socket = "closed"
        /\ (handler[h].sent.type = "UNCONNECTED" /\ Live(h)) =>
              /\ \A raw \in RawReuse :
                   (raw.username # "" /\ FrameREUSE(h, raw)) =>
                       handler'[h].state \in {CONNECTING, READY, INITIAL}
              /\ \A raw \in RawConnect :
                   (raw.username # "" /\ FrameCONNECT(h, raw)) =>
                       handler'[h].state \in {CONNECTING, READY, INITIAL}

C27_OneAnswer == [][OneAnswer]_vars

\* An attempt that went to the server has been answered UNCONNECTED and the
\* handler, in Initial on its open socket, has the credentials of an earlier
\* attempt on the same connection in the pool.
C27_Witness ==
    /\ handler[1].sent.type = "UNCONNECTED"
    /\ handler[1].sent.data.reason = "connection error"
    /\ handler[1].state = INITIAL
    /\ handler[1].socket = "open"
    /\ handler[2].socket = "closed"
    /\ cachedCredentials # EmptyMap


\* ------------------------------------------------------ result of a command

\* A session runs at most one command, that of the Executing handler that
\* owns it.
OneCommand ==
    \A s \in Sessions :
        /\ session[s].pendingExec + session[s].liveChannel <= 1
        /\ session[s].pendingExec + session[s].liveChannel = 1 =>
              /\ session[s].emitter # POOL
              /\ handler[session[s].emitter].state \in {EXECUTING, ERRORED}


\* C28: RESULT is sent only by an Executing handler and ends its command, so
\* a command has at most one RESULT; the handler leaves Executing for Ready
\* only with RESULT, and a command that ends while its handler is Executing
\* on an open socket is answered RESULT in that step; STDOUT and STDERR are
\* sent only by a handler that is and stays Executing, and the one command
\* that its session runs is its own, so none follows the RESULT.
ResultOnce ==
    /\ OneCommand'
    /\ \A h \in Handlers :
        /\ handler'[h].sent.type = "RESULT" =>
              /\ handler[h].state = EXECUTING
              /\ handler'[h].state = IF aborted THEN ERRORED ELSE READY
        /\ handler'[h].sent.type \in OutputFrames =>
              /\ handler[h].state = EXECUTING
              /\ handler'[h].state = EXECUTING
        /\ (handler[h].state = EXECUTING /\ handler'[h].state = READY) =>
              handler'[h].sent.type = "RESULT"
        /\ \A s \in Sessions :
              (/\ handler[h].state = EXECUTING /\ Live(h) /\ handler[h].ssh = s
               /\ ChannelClose(s) \/ ExecCallback(s, FALSE))
                  => handler'[h].sent.type = "RESULT"

C28_ResultOnce == [][ResultOnce]_vars

\* A command has run to its end: its RESULT has just been sent, its channel
\* is gone and the handler is Ready.
C28_Witness ==
    /\ ~aborted
    /\ handler[1].state = READY
    /\ handler[1].sent = [type |-> "RESULT", data |-> plainReason("code")]
    /\ session[handler[1].ssh].liveChannel = 0


\* ------------------------------------------------- events out of state

Events == {"connected", "unconnected", "challenge", "disconnected", "output", "result"}

\* This step is session s emitting the event.
Observed(s, event) ==
    CASE event = "connected" -> SshReady(s)
      [] event = "challenge" -> SshKeyboardInteractive(s)
      [] event = "unconnected" ->
           /\ session[s].connectInfo = NoInfo
           /\ SshClose(s) \/ \E level \in ErrorLevels(session[s].conn) : SshError(s, level)
      [] event = "disconnected" ->
           /\ session[s].connectInfo # NoInfo
           /\ SshClose(s) \/ \E level \in ErrorLevels(session[s].conn) : SshError(s, level)
      [] event = "output" -> \E type \in OutputFrames : ChannelData(s, type)
      [] OTHER -> ChannelClose(s) \/ ExecCallback(s, FALSE)

\* The handler states in which the listener of the event takes it.
ValidIn(event) ==
    CASE event \in {"connected", "unconnected", "challenge"} -> {CONNECTING}
      [] event = "disconnected" -> {READY, EXECUTING}
      [] OTHER -> {EXECUTING}

\* C29: an event of its session that the handler's state does not allow
\* makes the handler send EXCEPTION, become Errored and close its socket; a
\* handler that is Errored already stays so and sends nothing.
EventOutOfStateRaises ==
    \A s \in Sessions, event \in Events :
        (session[s].emitter # POOL /\ Observed(s, event)) =>
            LET h == session[s].emitter IN
            /\ handler[h].state = ERRORED =>
                  /\ handler'[h].state = ERRORED
                  /\ handler'[h].sent = NoFrame
                  /\ handler'[h].socket = handler[h].socket
            /\ handler[h].state \notin ValidIn(event) \cup {ERRORED} =>
                  /\ Raised(h)
                  /\ handler[h].socket = "open" => handler'[h].socket = "ending"

C29_EventOutOfStateRaises == [][EventOutOfStateRaises]_vars

\* The connection that the handler gave up with SHARE has closed: its
\* disconnected event found the handler in Initial.
C29_Witness ==
    /\ handler[1].state = ERRORED
    /\ handler[1].sent.type = "EXCEPTION"
    /\ handler[1].socket = "ending"
    /\ note \notin {Unexpected, Rejected}


\* ------------------------------------------------------------ state edges

Edges ==
    { <<INITIAL, CONNECTING>>, <<CONNECTING, READY>>, <<CONNECTING, INITIAL>>,
      <<READY, EXECUTING>>, <<EXECUTING, READY>>, <<READY, INITIAL>> }
    \cup {<<state, ERRORED>> : state \in {INITIAL, CONNECTING, READY, EXECUTING}}

\* The step takes handler h from one state to the other along the edges:
\* one edge, or the two edges of a REUSE that pool.reuse answers at once
\* (Initial, Connecting, Ready) and of a result during the shutdown
\* (Executing, Ready, Errored).
AlongEdges(h) ==
    \/ handler'[h].state = handler[h].state
    \/ <<handler[h].state, handler'[h].state>> \in Edges
    \/ /\ handler[h].state = INITIAL /\ handler'[h].state = READY
       /\ \E raw \in RawReuse : FrameREUSE(h, raw)
       /\ handler'[h].sent.type = "CONNECTED"

\* C30: the state of a daemon handler and that of a client change only along
\* Initial-Connecting, Connecting-Ready, Connecting-Initial, Ready-Executing,
\* Executing-Ready, Ready-Initial and from any state to Errored; a handler or
\* a client that is Errored stays Errored and sends no frame.
OnlyEdges ==
    /\ \A h \in Handlers :
          ~Accept(h) =>
              /\ AlongEdges(h)
              /\ handler[h].state = ERRORED =>
                    /\ handler'[h].state = ERRORED
                    /\ handler'[h].sent = NoFrame \/ UNCHANGED daemonVars
    /\ \/ client'.state = client.state
       \/ <<client.state, client'.state>> \in Edges \ {<<READY, INITIAL>>}
    /\ client.state = ERRORED =>
          /\ client'.state = ERRORED
          /\ client'.sent = "NONE" \/ UNCHANGED client

C30_OnlyEdges == [][OnlyEdges]_vars

\* The connection of a handler that is Errored has become ready: the handler
\* is still Errored and has sent nothing.
C30_Witness ==
    /\ handler[1].state = ERRORED
    /\ handler[1].socket = "ending"
    /\ handler[1].sent = NoFrame
    /\ \E s \in Sessions : session[s].conn = "ready" /\ session[s].emitter = 1

\* A client that is Errored has been handed a frame and a method call.
C30_ClientWitness ==
    /\ client.state = ERRORED
    /\ client.socket = "ending"
    /\ client.call.outcome = "rejected"
    /\ client.raised = 1

\* ---------------------------------------------------------------- C31
\* The retention timer of a session is pending only while the session is
\* idle: pool.reuse cancels it.
TimerOnlyWhileIdle ==
    \A s \in Sessions :
        session[s].ttlTimer # NoTimer =>
            /\ session[s].emitter = POOL
            /\ Attached(s) = {}
            /\ session[s].conn = "ready"

\* The step is pool.reuse handing out session s.
HandsOut(s) ==
    /\ Len(note') = 3 /\ note'[1] = "REUSE" /\ note'[2] = "reused"
    /\ session[s].emitter = POOL
    /\ session'[s].emitter # POOL

\* The idle entries of the sessions other than s stay as they are.
SparesOthers(s) ==
    \A k \in DOMAIN cachedConnections :
        cachedConnections[k] # s =>
            /\ k \in DOMAIN cachedConnections'
            /\ cachedConnections'[k] = cachedConnections[k]

RetentionTimers ==
    /\ TimerOnlyWhileIdle
    /\ \A s \in Sessions :
          /\ HandsOut(s) => session[s].ttlTimer # NoTimer /\ session'[s].ttlTimer = NoTimer
          /\ TimerFire(s) => Attached(s) = {} /\ SparesOthers(s)
    /\ \A key \in timers.keys :
          StaleTimerFire(key) => cachedConnections' = cachedConnections

\* C31: pool.reuse cancels the retention timer of the session it hands out;
\* a retention timer is pending only on an idle session, so it never closes a
\* session that is attached to a handler; and a timer that fires, also one
\* whose connection was ended before it was due, removes no idle entry of
\* another session.
C31_RetentionTimers == [][RetentionTimers]_vars

\* A timer outlived its connection and fired while another session was idle
\* under its key.
C31_Witness ==
    /\ note = <<"timer", "stale">>
    /\ cachedConnections # EmptyMap
    /\ \E s \in Sessions : session[s].ttlTimer # NoTimer

\* A session was handed out by pool.reuse and is attached without a timer.
C31_ReusedWitness ==
    /\ Len(note) = 3 /\ note[1] = "REUSE" /\ note[2] = "reused"
    /\ \E s \in Sessions : Attached(s) # {} /\ session[s].ttlTimer = NoTimer

\* ---------------------------------------------------------------- C32
\* The step is the answer of the challengeHandler that was invoked for
\* attempt n.
Handled(n) == n \in client.challenges /\ client'.challenges = client.challenges \ {n}

ResponseOnlyForCurrentAttempt ==
    /\ client'.sent = "CHALLENGE_RESPONSE" =>
          /\ client.state = CONNECTING
          /\ Handled(client.connectionAttempts)
    /\ \A n \in 1..MaxAttempts :
          (/\ ChallengeHandled(n, "array")
           /\ client.state # CONNECTING \/ client.connectionAttempts # n) =>
              /\ client'.sent = "NONE"
              /\ client'.state = client.state
              /\ client'.resolver = client.resolver

\* C32: a CHALLENGE_RESPONSE is sent only for the answer of the handler that
\* was invoked for the current attempt while the client is Connecting; an
\* answer for an attempt that has ended sends nothing and changes nothing.
C32_ResponseOnlyForCurrentAttempt == [][ResponseOnlyForCurrentAttempt]_vars

\* The handler invoked for the second attempt has answered and its response
\* was sent, while the handler invoked for the first attempt has not answered.
C32_Witness ==
    /\ client.state = CONNECTING
    /\ client.connectionAttempts = 2
    /\ client.challenges = {1}
    /\ client.sent = "CHALLENGE_RESPONSE"

\* ---------------------------------------------------------------- C33
\* The shutdown sequence empties the idle pool and ends every session that
\* was idle.
ClearDrains ==
    (~aborted /\ aborted') =>
        /\ cachedConnections' = EmptyMap
        /\ \A s \in Sessions : Idle(s) # {} => session'[s].conn \in {"ended", "closed"}

\* After the abort signal nothing is put into the idle pool.
DrainedStaysEmpty == aborted' => cachedConnections' = EmptyMap

\* A handler whose socket closes after the abort signal ends its session.
AbortedCloseEnds ==
    \A h \in Handlers :
        (aborted /\ handler[h].ssh # NULL /\ SocketClose(h)) =>
            /\ note' = <<"close", "ended">>
            /\ session'[handler[h].ssh].conn \in {"ended", "closed"}

\* C33: pool.clear() of the shutdown removes every idle session from the idle
\* pool and closes it, and the idle pool stays empty from then on: a handler
\* that finishes after the abort signal, also one that was Executing when it
\* arrived, ends its session and does not store it.
C33_ClearDrainsForGood == [][ClearDrains /\ DrainedStaysEmpty /\ AbortedCloseEnds]_vars

\* After the abort signal the socket of a handler that held a session has
\* closed, and the session was ended.
C33_Witness ==
    /\ aborted
    /\ note = <<"close", "ended">>
    /\ cachedConnections = EmptyMap

\* ---------------------------------------------------------------- C34
\* The step ends a command of session s with a RESULT that carries an error.
CommandFails(s) ==
    \/ ExecCallback(s, FALSE)
    \/ session[s].channelError /\ ChannelClose(s)

\* A failed command makes the session non-reusable ...
FailureForbidsReuse ==
    \A s \in Sessions :
        (CommandFails(s) /\ session'[s].conn = "ready") => ~session'[s].reusable

\* ... for as long as the connection lives ...
NeverReusableAgain ==
    \A s \in Sessions :
        (session[s].conn = "ready" /\ ~session[s].reusable /\ session'[s].conn = "ready")
            => ~session'[s].reusable

\* ... and the socket's close handler ends it when the handler is Ready.
NonReusableClosedInReady ==
    \A h \in Handlers :
        (/\ handler[h].state = READY
         /\ handler[h].ssh # NULL
         /\ ~session[handler[h].ssh].reusable
         /\ SocketClose(h)) =>
            /\ note' = <<"close", "ended">>
            /\ session'[handler[h].ssh].conn \in {"ended", "closed"}
            /\ cachedConnections' = cachedConnections

\* C34: a command whose channel fails to open or reports a channel-level
\* error leaves the session non-reusable, also one that was established with
\* reusable = true; when the handler's socket then closes in Ready the
\* session is closed and not placed in the idle pool.
C34_FailedCommandForbidsReuse ==
    [][FailureForbidsReuse /\ NeverReusableAgain /\ NonReusableClosedInReady]_vars

\* The handler has sent a RESULT that carries an error and is Ready again; its
\* session is open and no longer reusable.
C34_Witness ==
    \E h \in Handlers :
        /\ handler[h].state = READY
        /\ handler[h].sent = [type |-> "RESULT", data |-> plainReason("error")]
        /\ handler[h].ssh # NULL
        /\ session[handler[h].ssh].conn = "ready"
        /\ ~session[handler[h].ssh].reusable

\* ---------------------------------------------------------------- C35
\* Session t is idle because it was shared.
SharedIdle(t) ==
    /\ session[t].conn = "ready"
    /\ session[t].keptBy = "SHARE"
    /\ Idle(t) # {}

\* C35: when a session is shared while another session to the same user,
\* host and port is idle because it was shared, the other session keeps its
\* idle entry and stays open, and the session that is shared gets an idle
\* entry of its own, under its cache key extended with the share key that
\* SHARED reports.
SharedSideBySide ==
    \A h \in Handlers, shareKey \in ShareKeys, t \in Sessions :
        (/\ note' \in ShareNotes /\ handler[h].state = READY /\ handler[h].ssh # NULL
         /\ handler[h].ssh # t
         /\ SharedIdle(t)
         /\ session[t].cacheKey = session[handler[h].ssh].cacheKey
         /\ FrameSHARE(h, shareKey)) =>
            LET s == handler[h].ssh IN
            /\ session'[t].conn = "ready"
            /\ \A k \in Idle(t) : MapHas(cachedConnections', k) /\ cachedConnections'[k] = t
            /\ session'[s].conn = "ready"
            /\ \E k \in DOMAIN cachedConnections' :
                  /\ cachedConnections'[k] = s
                  /\ k = getExtendedCacheKey(session[s].cacheKey, shareKey)
                  /\ k \notin Idle(t)

C35_SharedSideBySide == [][SharedSideBySide]_vars

\* ---------------------------------------------------------------- C36
\* The payload length that the header of the pending frame declares.
declared(p) == readUInt32BE(concat(p._chunks))

\* C36 as the protocol description has it: a frame whose header declares more
\* than the maximum payload length is not kept pending, and the parser never
\* holds more than one header and one payload of the maximum length.
C36_LongFrameIsFatal ==
    /\ frameParser._expectedSize <= 5 + MaxPayload
    /\ frameParser._chunksSize <= 5 + MaxPayload

\* C36: the parser has no maximum payload length and takes the length that
\* a header declares as it is.  After every append it holds less than a
\* header, or the bytes of one pending frame: its header, which has been
\* read, and less than the payload that the header declares.
C36_OnePendingFrame ==
    /\ frameParser._chunksSize = Len(concat(frameParser._chunks))
    /\ IF frameParser._expectedSize < 0
       THEN frameParser._chunksSize < 5
       ELSE /\ frameParser._chunksSize >= 5
            /\ frameParser._expectedSize = 5 + declared(frameParser)
            /\ frameParser._chunksSize < frameParser._expectedSize

\* The parser keeps the first bytes of a frame whose header declares more
\* than 16 MiB, after it has handed out a frame that came before.
C36_Witness ==
    /\ frameParser._expectedSize > 5 + MaxPayload
    /\ frameParser._chunksSize > 5
    /\ Len(stream.got) > 0

\* ---------------------------------------------------------------- C37
\* The sessions that still emit to the emitter of handler h although h does
\* not own them: h has lost them or given them up.
GivenUp(h) ==
    {s \in Sessions : /\ session[s].conn # "closed"
                      /\ session[s].emitter = h
                      /\ handler[h].ssh # s}

\* The step is an event of the connection of session s.
EventOf(s) ==
    \/ SshClose(s)
    \/ \E level \in ErrorLevels(session[s].conn) : SshError(s, level)
    \/ SshKeyboardInteractive(s)
    \/ SshReady(s)
    \/ \E opened \in BOOLEAN : ExecCallback(s, opened)
    \/ \E type \in OutputFrames : ChannelData(s, type)
    \/ ChannelClose(s)

\* C37: an event of a session that a handler has lost or given up does not
\* reach the handler: the handler sends no frame for it and keeps its state
\* and the session that it owns now.
OnlyOwnEvents ==
    \A h \in Handlers : \A s \in GivenUp(h) :
        EventOf(s) =>
            /\ handler'[h].sent = NoFrame
            /\ handler'[h].state = handler[h].state
            /\ handler'[h].ssh = handler[h].ssh
            /\ handler'[h].socket = handler[h].socket

C37_OnlyOwnEvents == [][OnlyOwnEvents]_vars

\* ---------------------------------------------------------------- C38
\* The input of a command: the STDIN frames up to the first end of input.
upToEOF(frames) ==
    LET ends == {k \in 1..Len(frames) : frames[k] = EOF} IN
    IF ends = {} THEN frames
    ELSE SubSeq(frames, 1, CHOOSE k \in ends : \A l \in ends : k <= l)

IsPrefix(s, u) == Len(s) <= Len(u) /\ s = SubSeq(u, 1, Len(s))

\* What the queue holds, as the callback of connection.exec will write it.
Queued ==
    input.queuedInputData \o (IF input.queuedInputEnd THEN <<EOF>> ELSE <<>>)

\* The input of a command reaches its channel in arrival order: it waits in
\* the queue until the channel opens, the channel gets all of it while it is
\* writable, and nothing after the end of input.
StdinInOrder ==
    /\ input.pending => input.written = <<>> /\ Queued = upToEOF(input.received)
    /\ input.liveChannel =>
          /\ Queued = <<>>
          /\ IsPrefix(input.written, upToEOF(input.received))
          /\ input.writable => input.written = input.received
          /\ (input.written # <<>> /\ input.written[Len(input.written)] = EOF)
                => input.written = upToEOF(input.received)

\* C38 as stated: the input of a command reaches its channel in order, and
\* the queue and the end-of-input flag are empty whenever the handler is not
\* Executing.
C38_StdinConfined ==
    /\ StdinInOrder
    /\ input.state # EXECUTING => Queued = <<>>

\* The queue and the flag are empty whenever the handler is Ready; a handler
\* that is Errored stays so and its session gets no other command and no
\* other owner.
ConfinedWhileUsable ==
    /\ StdinInOrder'
    /\ input'.state = READY => Queued' = <<>>
    /\ input.state = ERRORED =>
          /\ input'.state = ERRORED
          /\ input'.owners = input.owners
          /\ input'.received = input.received

\* C38: the input of a command reaches its channel in order, and the queue
\* and the end-of-input flag are empty whenever the handler is Ready, which
\* is when the session can get its next command or, through the idle pool,
\* its next owner.  A handler that becomes Errored while its command waits
\* for the channel leaves them as they are; its session gets no other
\* command and no other owner.
C38_StdinConfinedWhileUsable == [][ConfinedWhileUsable]_vars

\* The second owner of the session runs a command whose input, two chunks
\* and the end of input, has reached the channel, after a command of the
\* first owner had input.
C38_Witness ==
    /\ input.owners = 2
    /\ input.state = EXECUTING
    /\ input.liveChannel
    /\ input.received = <<2, 1, EOF>>
    /\ input.written = <<2, 1, EOF>>

\* ---------------------------------------------------------------- C39
\* Attempt n has ended: the client is not Connecting, or is in a later
\* attempt.
AttemptEnded(n) == client.state # CONNECTING \/ client.connectionAttempts # n

\* C39: a challengeHandler that was invoked for an attempt that has ended
\* and that throws or returns something that is not an array leaves the
\* client as it is: the client does not become Errored and no pending
\* operation is rejected.
LateFailureIgnored ==
    \A n \in 1..MaxAttempts, answer \in {"throws", "other"} :
        (/\ AttemptEnded(n)
         /\ client.state # ERRORED
         /\ ChallengeHandled(n, answer)) =>
            /\ client'.state = client.state
            /\ client'.error = client.error
            /\ client'.resolver = client.resolver
            /\ client'.settled.how # "rejected"

C39_LateFailureIgnored == [][LateFailureIgnored]_vars

====
